---------------------------- MODULE Spec2Model ----------------------------
(***************************************************************************)
(* A model of td2-map's scenery reader (src/src/parse.rs): the row reader  *)
(* with its section state machine, the record parser, the structure        *)
(* builders (fork, slip switch, crossing), the id index and the            *)
(* connectivity validator.                                                 *)
(*                                                                         *)
(* Numbers.  The program computes in f32.  The model computes in fixed     *)
(* point: a length or coordinate is an integer number of 1/Scale units, an *)
(* angle an integer number of milliradians, a direction cosine an integer  *)
(* number of 1/DirScale.  A rotation is a rotation about the Y axis, kept  *)
(* as q quarter turns plus k angle steps of AngleStep milliradians (the    *)
(* half angle of a 1:9 turnout), which is the set of rotations the catalog *)
(* structures and axis-aligned rows produce.                               *)
(*                                                                         *)
(* Text.  A cell of a row is a sequence of tokens; a token is one          *)
(* character ("0".."9", "-", "+", ".", ":", ",") or a whole word that the  *)
(* program only ever compares for equality or fails to parse ("Track",     *)
(* "Route", a structure name, "x").  A line is the sequence of its cells,  *)
(* the empty line the empty sequence.                                      *)
(***************************************************************************)
EXTENDS Integers, Sequences, FiniteSets, TLC

\* ------------------------------------------------------------------------
\* anyhow::Result, and a panic unwinding out of the call
\* ------------------------------------------------------------------------
Ok(v) == [tag |-> "Ok", val |-> v, msg |-> ""]

Err(m) == [tag |-> "Err", val |-> <<>>, msg |-> m]

Panic(m) == [tag |-> "Panic", val |-> <<>>, msg |-> m]

IsOk(r) == r.tag = "Ok"

\* The ? operator and the unwinding of a panic: the failure r, or the rest of
\* the function F on the value of r.
Try(r, F(_)) == IF ~IsOk(r) THEN r ELSE F(r.val)

\* ------------------------------------------------------------------------
\* f32 in fixed point
\* ------------------------------------------------------------------------
\* One unit of length is Scale fixed-point steps.
Scale == 10

\* Direction cosines and angles (radians) carry three decimal digits.
DirScale == 1000

\* atan(1/9)/2 in milliradians: the angle step of the rotation model.
AngleStep == 55

\* std::f32::consts::PI, f32::to_radians(90.0), in milliradians.
PI == 3142

QuarterTurn == 1571

Abs(a) == IF a < 0 THEN -a ELSE a

\* Division rounding to the nearest integer (f32 rounds to nearest).
RoundDiv(a, b) == IF a >= 0 THEN (2 * a + b) \div (2 * b) ELSE -((2 * (-a) + b) \div (2 * b))

\* The largest r in lo..hi with r * r <= n, by bisection.
RECURSIVE ISqrtIn(_, _, _)
ISqrtIn(n, lo, hi) ==
    IF lo = hi THEN lo
    ELSE LET mid == (lo + hi + 1) \div 2 IN
         IF mid * mid <= n THEN ISqrtIn(n, mid, hi) ELSE ISqrtIn(n, lo, mid - 1)

\* The largest root whose square fits a 32-bit integer.
MaxRoot == 46340

\* f32::sqrt, rounded down to a fixed-point step.
Sqrt(n) == ISqrtIn(n, 0, MaxRoot)

\* ------------------------------------------------------------------------
\* str::parse::<i32>() and str::parse::<f32>() on a cell
\* ------------------------------------------------------------------------
Digits == {"0", "1", "2", "3", "4", "5", "6", "7", "8", "9"}

DigitVal(c) == CASE c = "0" -> 0 [] c = "1" -> 1 [] c = "2" -> 2 [] c = "3" -> 3 [] c = "4" -> 4
                 [] c = "5" -> 5 [] c = "6" -> 6 [] c = "7" -> 7 [] c = "8" -> 8 [] c = "9" -> 9

AllDigits(s) == \A i \in 1..Len(s) : s[i] \in Digits

RECURSIVE DigitsVal(_)
DigitsVal(s) == IF s = <<>> THEN 0 ELSE 10 * DigitsVal(SubSeq(s, 1, Len(s) - 1)) + DigitVal(s[Len(s)])

\* The longest i32 literal the model reads; a longer one overflows i32.
MaxI32Digits == 9

HasSign(s) == s # <<>> /\ s[1] \in {"-", "+"}

Unsigned(s) == IF HasSign(s) THEN Tail(s) ELSE s

\* i32::from_str: an optional sign, then one or more digits.
parse_i32(s) ==
    LET d == Unsigned(s) IN
    IF s = <<>> THEN Err("cannot parse integer from empty string")
    ELSE IF d = <<>> \/ ~AllDigits(d) THEN Err("invalid digit found in string")
    ELSE IF Len(d) > MaxI32Digits THEN Err("number too large to fit in target type")
    ELSE Ok(IF s[1] = "-" THEN -DigitsVal(d) ELSE DigitsVal(d))

\* The position of the first "." of s, or 0.
RECURSIVE DotAt(_, _)
DotAt(s, i) == IF i > Len(s) THEN 0 ELSE IF s[i] = "." THEN i ELSE DotAt(s, i + 1)

\* The fraction digits f as fixed-point steps, rounded to the nearest step.
FracVal(f) == IF f = <<>> THEN 0 ELSE RoundDiv(DigitsVal(SubSeq(f, 1, 1)) * Scale, 10)

\* f32::from_str on decimal literals: an optional sign, digits with at most one
\* ".", at least one digit.  The value is in fixed-point steps.
parse_f32(s) ==
    LET d == Unsigned(s)
        dot == DotAt(d, 1)
        ip == IF dot = 0 THEN d ELSE SubSeq(d, 1, dot - 1)
        fp == IF dot = 0 THEN <<>> ELSE SubSeq(d, dot + 1, Len(d))
    IN
    IF s = <<>> THEN Err("cannot parse float from empty string")
    ELSE IF ~AllDigits(ip) \/ ~AllDigits(fp) \/ Len(ip) + Len(fp) = 0 THEN Err("invalid float literal")
    ELSE LET v == DigitsVal(ip) * Scale + FracVal(fp) IN Ok(IF s[1] = "-" THEN -v ELSE v)

\* ------------------------------------------------------------------------
\* glam::Vec3 and glam::Mat3
\* ------------------------------------------------------------------------
Vec3(x, y, z) == <<x, y, z>>

VAdd(a, b) == <<a[1] + b[1], a[2] + b[2], a[3] + b[3]>>

VSub(a, b) == <<a[1] - b[1], a[2] - b[2], a[3] - b[3]>>

\* A variant of xz_length_squared that keeps the elevation: Vec3::length_squared.
length_squared(v) == v[1] * v[1] + v[2] * v[2] + v[3] * v[3]

\* Vec3::xz followed by Vec2::length_squared.
xz_length_squared(v) == v[1] * v[1] + v[3] * v[3]

\* Vec3::length.
VLength(v) == Sqrt(v[1] * v[1] + v[2] * v[2] + v[3] * v[3])

\* Mat3::IDENTITY.
IDENTITY == [q |-> 0, k |-> 0]

\* Mat3 * Mat3 for rotations about Y.
MatMul(a, b) == [q |-> (a.q + b.q) % 4, k |-> a.k + b.k]

\* Mat3::from_rotation_y(angle), angle in milliradians: the nearest quarter
\* turn, and the rest in angle steps.
from_rotation_y(angle) ==
    LET q == (2 * angle + QuarterTurn) \div (2 * QuarterTurn)
        rest == angle - RoundDiv(q * PI, 2)
    IN [q |-> q % 4, k |-> RoundDiv(rest, AngleStep)]

\* <<sin, cos>> of k angle steps, in 1/DirScale, by the angle-sum formulas.
RECURSIVE SinCos(_)
SinCos(k) ==
    IF k = 0 THEN <<0, DirScale>>
    ELSE IF k < 0 THEN LET p == SinCos(-k) IN <<-p[1], p[2]>>
    ELSE LET p == SinCos(k - 1) IN
         <<RoundDiv(p[1] * 998 + p[2] * 55, DirScale), RoundDiv(p[2] * 998 - p[1] * 55, DirScale)>>

\* <<sin, cos>> of the yaw of rotation r.
YawSinCos(r) ==
    LET p == SinCos(r.k) IN
    CASE r.q = 0 -> <<p[1], p[2]>>
      [] r.q = 1 -> <<p[2], -p[1]>>
      [] r.q = 2 -> <<-p[1], -p[2]>>
      [] r.q = 3 -> <<-p[2], p[1]>>

\* rotation * (x * Vec3::X + z * Vec3::Z)
MulXZ(r, x, z) ==
    LET p == YawSinCos(r) IN
    <<RoundDiv(x * p[2] + z * p[1], DirScale), 0, RoundDiv(z * p[2] - x * p[1], DirScale)>>

\* rotation * length * Vec3::Z
MulZ(r, length) == MulXZ(r, 0, length)

\* ------------------------------------------------------------------------
\* Checkpoint
\* ------------------------------------------------------------------------
Checkpoint_new(pos, rotation) == [pos |-> pos, rotation |-> rotation]

Checkpoint_rotate(self, angle) ==
    [pos |-> self.pos, rotation |-> MatMul(self.rotation, from_rotation_y(angle))]

\* ------------------------------------------------------------------------
\* math::RotatedCircle (its source is not part of the repository files)
\* ------------------------------------------------------------------------
RotatedCircle_new(radius, rotation) == [radius |-> radius, rotation |-> rotation]

RotatedCircle_start_rotation(self) == self.rotation

\* The pose after sweeping angle (milliradians) from start_pos: closed form,
\* the lateral offset and the turn taking the sign of the radius.
RotatedCircle_move_by_angle(self, start_pos, angle) ==
    LET k == RoundDiv(angle, AngleStep)
        p == SinCos(k)
        r == Abs(self.radius)
        sgn == IF self.radius < 0 THEN -1 ELSE 1
        lateral == sgn * RoundDiv(r * (DirScale - p[2]), DirScale)
        forward == RoundDiv(r * p[1], DirScale)
    IN [pos |-> VAdd(start_pos, MulXZ(self.rotation, lateral, forward)),
        rotation |-> MatMul(self.rotation, [q |-> 0, k |-> sgn * k])]

\* ------------------------------------------------------------------------
\* TrackShape
\* ------------------------------------------------------------------------
TrackShape_straight(start, length) ==
    IF ~(length >= 0) THEN Panic("Length must be non-negative")
    ELSE Ok([kind |-> "Straight", start |-> start,
             end_pos |-> VAdd(start.pos, MulZ(start.rotation, length)), length |-> length])

TrackShape_straight_around_point(point, start_offset, end_offset) ==
    LET length == end_offset - start_offset IN
    IF ~(length >= 0) THEN Panic("end_offset must be greater than start_offset")
    ELSE Ok([kind |-> "Straight",
             start |-> [pos |-> VAdd(point.pos, MulZ(point.rotation, start_offset)),
                        rotation |-> point.rotation],
             end_pos |-> VAdd(point.pos, MulZ(point.rotation, end_offset)),
             length |-> start_offset])

TrackShape_straight_between(start_pos, end_pos, rotation) ==
    [kind |-> "Straight", start |-> [pos |-> start_pos, rotation |-> rotation],
     end_pos |-> end_pos, length |-> VLength(VSub(end_pos, start_pos))]

TrackShape_arc(start, radius, angle, length) ==
    LET rotated_circle == RotatedCircle_new(radius, start.rotation) IN
    [kind |-> "Arc", start_pos |-> start.pos,
     end |-> RotatedCircle_move_by_angle(rotated_circle, start.pos, angle),
     angle |-> angle, length |-> length, rotated_circle |-> rotated_circle]

\* angle = length / |radius|, in milliradians.
TrackShape_arc_or_straight(start, radius, length) ==
    IF radius = 0 THEN TrackShape_straight(start, length)
    ELSE Ok(TrackShape_arc(start, radius, RoundDiv(length * DirScale, Abs(radius)), length))

\* The length field (bezier_nd's arc-length estimate) is read by no operation
\* of the reader and is left out.
TrackShape_bezier(start_pos, control1, control2, end_pos) ==
    [kind |-> "Bezier", start_pos |-> start_pos, control1 |-> control1,
     control2 |-> control2, end_pos |-> end_pos]

TrackShape_point(p) == [kind |-> "Point", point |-> p]

TrackShape_start(self) ==
    CASE self.kind = "Straight" -> self.start
      [] self.kind = "Arc" ->
           [pos |-> self.start_pos, rotation |-> RotatedCircle_start_rotation(self.rotated_circle)]
      [] self.kind = "Bezier" -> [pos |-> self.start_pos, rotation |-> IDENTITY]
      [] self.kind = "Point" -> self.point

TrackShape_end(self) ==
    CASE self.kind = "Straight" -> [pos |-> self.end_pos, rotation |-> self.start.rotation]
      [] self.kind = "Arc" ->
           RotatedCircle_move_by_angle(self.rotated_circle, self.start_pos, self.angle)
      [] self.kind = "Bezier" -> [pos |-> self.end_pos, rotation |-> IDENTITY]
      [] self.kind = "Point" -> self.point

\* ------------------------------------------------------------------------
\* NextIds, TrackIds, Track
\* ------------------------------------------------------------------------
\* Option<T> is the empty or the one-element sequence; NextIds::None, One(a),
\* Two(a, b) are the sequences <<>>, <<a>>, <<a, b>>.
None == <<>>

Some(v) == <<v>>

\* A variant of with_prev that keeps a predecessor the entry already names.
with_prev_if_unset(self, id) == IF self.prev = None THEN [self EXCEPT !.prev = Some(id)] ELSE self

with_prev(self, id) == [self EXCEPT !.prev = Some(id)]

\* A variant of with_one_next that keeps a successor already set.
with_one_next_if_unset(self, id) == IF self.next = << >> THEN [self EXCEPT !.next = <<id>>] ELSE self

with_one_next(self, id) == [self EXCEPT !.next = <<id>>]

\* A variant of with_two_next that stores the two ids in the other order.
with_two_next_swapped(self, id1, id2) == [self EXCEPT !.next = <<id2, id1>>]

with_two_next(self, id1, id2) == [self EXCEPT !.next = <<id1, id2>>]

\* A variant of add_next_panics that gives up on one successor already.
add_next_panics_on_one(self) == Len(self.next) >= 1

\* add_next panics when two successors are already set.
add_next_panics(self) == Len(self.next) = 2

\* A variant of add_next that puts the id in place of the successor set.
add_next_replacing(self, id) == [self EXCEPT !.next = <<id>>]

add_next(self, id) == [self EXCEPT !.next = IF @ = <<>> THEN <<id>> ELSE <<@[1], id>>]

\* An empty prev is None and an empty next NextIds::None; anything else must
\* parse, to Some(v) and to NextIds::One(v).
parse_optional(text) ==
    IF text = <<>> THEN Ok(None) ELSE Try(parse_i32(text), LAMBDA v : Ok(Some(v)))

TrackIds_parse(own, prev, next) ==
    Try(parse_i32(own), LAMBDA o :
    Try(parse_optional(prev), LAMBDA p :
    Try(parse_optional(next), LAMBDA n :
    Ok([own |-> o, prev |-> p, next |-> n]))))

Track_new(ids, shape) == [ids |-> ids, shape |-> shape, end_for_structure |-> None]

\* A variant of Track_new_structure_end that drops the structure name.
Track_new_untagged(ids, shape, end_for_structure) ==
    [ids |-> ids, shape |-> shape, end_for_structure |-> None]

Track_new_structure_end(ids, shape, end_for_structure) ==
    [ids |-> ids, shape |-> shape, end_for_structure |-> Some(end_for_structure)]

\* ------------------------------------------------------------------------
\* Rows: cells[i] and cells[a..b] of the source count from 0
\* ------------------------------------------------------------------------
Cell(cells, i) == cells[i + 1]

Slice(cells, a, b) == SubSeq(cells, a + 1, b)

\* f32::to_radians on fixed-point degrees, in milliradians.
to_radians(deg) == RoundDiv(deg * 17453, DirScale * Scale)

\* Mat3::from_rotation_x and Mat3::from_rotation_z: the rows the model reads
\* carry no pitch and no roll.
from_rotation_x(angle) == CASE angle = 0 -> IDENTITY

from_rotation_z(angle) == CASE angle = 0 -> IDENTITY

parse_position(cells) ==
    IF Len(cells) # 3 THEN Err("Condition failed: cells.len() == 3")
    ELSE Try(parse_f32(cells[1]), LAMBDA x :
         Try(parse_f32(cells[2]), LAMBDA y :
         Try(parse_f32(cells[3]), LAMBDA z :
         Ok(Vec3(x, y, z)))))

parse_transform(cells) ==
    IF Len(cells) # 3 THEN Err("Condition failed: cells.len() == 3")
    ELSE Try(parse_f32(cells[1]), LAMBDA x_deg :
         Try(parse_f32(cells[2]), LAMBDA y_deg :
         Try(parse_f32(cells[3]), LAMBDA z_deg :
         Ok(MatMul(MatMul(from_rotation_y(to_radians(y_deg)),
                          from_rotation_z(to_radians(z_deg))),
                   from_rotation_x(to_radians(x_deg)))))))

\* A variant of parse_normal_track that reads the radius from column 9 and
\* the length from column 10.
parse_normal_track_swapped(cells) ==
    IF ~(Len(cells) >= 22) THEN Err("Condition failed: cells.len() >= 22")
    ELSE Try(TrackIds_parse(Cell(cells, 1), Cell(cells, 12), Cell(cells, 11)), LAMBDA ids :
         Try(parse_position(Slice(cells, 3, 6)), LAMBDA pos :
         Try(parse_transform(Slice(cells, 6, 9)), LAMBDA rot :
         Try(parse_f32(Cell(cells, 10)), LAMBDA length :
         Try(parse_f32(Cell(cells, 9)), LAMBDA radius :
         Try(TrackShape_arc_or_straight(Checkpoint_new(pos, rot), radius, length), LAMBDA shape :
         Ok(Track_new(ids, shape))))))))

parse_normal_track(cells) ==
    IF ~(Len(cells) >= 22) THEN Err("Condition failed: cells.len() >= 22")
    ELSE Try(TrackIds_parse(Cell(cells, 1), Cell(cells, 12), Cell(cells, 11)), LAMBDA ids :
         Try(parse_position(Slice(cells, 3, 6)), LAMBDA pos :
         Try(parse_transform(Slice(cells, 6, 9)), LAMBDA rot :
         Try(parse_f32(Cell(cells, 9)), LAMBDA length :
         Try(parse_f32(Cell(cells, 10)), LAMBDA radius :
         Try(TrackShape_arc_or_straight(Checkpoint_new(pos, rot), radius, length), LAMBDA shape :
         Ok(Track_new(ids, shape))))))))

parse_bezier_track(cells) ==
    IF ~(Len(cells) >= 18) THEN Err("Condition failed: cells.len() >= 18")
    ELSE Try(TrackIds_parse(Cell(cells, 1), Cell(cells, 16), Cell(cells, 15)), LAMBDA ids :
         Try(parse_position(Slice(cells, 3, 6)), LAMBDA start_pos :
         Try(parse_position(Slice(cells, 6, 9)), LAMBDA start_to_control1 :
         Try(parse_position(Slice(cells, 9, 12)), LAMBDA end_abs :
         Try(parse_position(Slice(cells, 12, 15)), LAMBDA end_to_control2 :
         LET start_to_end == VSub(end_abs, start_pos)
             start_to_control2 == VAdd(start_to_end, end_to_control2)
             \* rotation is Mat3::IDENTITY: rotation * v = v
             control1 == VAdd(start_pos, start_to_control1)
             control2 == VAdd(start_pos, start_to_control2)
             end_pos == VAdd(start_pos, start_to_end)
         IN Ok(Track_new(ids, TrackShape_bezier(start_pos, control1, control2, end_pos))))))))

parse_track(cells) ==
    IF ~(Len(cells) >= 3) THEN Err("Condition failed: cells.len() >= 3")
    ELSE CASE Cell(cells, 2) = <<"Track">> -> parse_normal_track(cells)
           [] Cell(cells, 2) = <<"BTrack">> -> parse_bezier_track(cells)
           [] OTHER -> Panic("explicit panic")

\* str::split(sep): the parts of s between the separators (one part more than
\* there are separators).
RECURSIVE SplitFrom(_, _, _, _)
SplitFrom(s, sep, i, cur) ==
    IF i > Len(s) THEN <<cur>>
    ELSE IF s[i] = sep THEN <<cur>> \o SplitFrom(s, sep, i + 1, <<>>)
    ELSE SplitFrom(s, sep, i + 1, Append(cur, s[i]))

Split(s, sep) == SplitFrom(s, sep, 1, <<>>)

\* regex_captures! on a subtrack entry, own:prev:next with own one or more
\* digits and prev and next zero or more: the three groups, or None.
subtrack_captures(part) ==
    LET g == Split(part, ":") IN
    IF Len(g) = 3 /\ g[1] # <<>> /\ AllDigits(g[1]) /\ AllDigits(g[2]) /\ AllDigits(g[3])
    THEN Some(g) ELSE None

\* The results of a sequence of Results collected: the values, or the first
\* failure.
RECURSIVE Collect(_)
Collect(rs) ==
    IF rs = <<>> THEN Ok(<<>>)
    ELSE IF ~IsOk(Head(rs)) THEN Head(rs)
    ELSE LET rest == Collect(Tail(rs)) IN
         IF ~IsOk(rest) THEN rest ELSE Ok(<<Head(rs).val>> \o rest.val)

parse_subtrack_ids(cell) ==
    LET parts == SelectSeq(Split(cell, ","), LAMBDA part : part # <<>>)
        one(part) == LET c == subtrack_captures(part) IN
                     IF c # None THEN TrackIds_parse(c[1][1], c[1][2], c[1][3])
                     ELSE Err("Invalid subtrack ID format")
    IN Collect([i \in 1..Len(parts) |-> one(parts[i])])

\* ------------------------------------------------------------------------
\* track_structures::TRACK_STRUCTURES, lengths and radii in fixed point
\* ------------------------------------------------------------------------
TRACK_STRUCTURES ==
    "Rkp 60E1-190-1_9 ab" :> [type |-> "Slip", total_length |-> 332, outer_length |-> 61, transition_length |-> 75, radius |-> 1900, tangent_inv |-> 90, left_slip |-> FALSE, right_slip |-> TRUE]
    @@ "Rkp 60E1-190-1_9 ba" :> [type |-> "Slip", total_length |-> 332, outer_length |-> 61, transition_length |-> 75, radius |-> 1900, tangent_inv |-> 90, left_slip |-> FALSE, right_slip |-> TRUE]
    @@ "Rkpd 60E1-190-1_9" :> [type |-> "Slip", total_length |-> 332, outer_length |-> 61, transition_length |-> 75, radius |-> 1900, tangent_inv |-> 90, left_slip |-> TRUE, right_slip |-> TRUE]
    @@ "Rld 60E1-1200_600-1_15 L" :> [type |-> "Fork", radius_1 |-> 6000, radius_2 |-> -12000, curve_length |-> 400, tangent_inv |-> 120, added_length |-> 0]
    @@ "Rld 60E1-1200_600-1_15 R" :> [type |-> "Fork", radius_1 |-> -6000, radius_2 |-> 12000, curve_length |-> 400, tangent_inv |-> 120, added_length |-> 0]
    @@ "Rld 60E1-1200_900-1_18.5 L" :> [type |-> "Fork", radius_1 |-> 9000, radius_2 |-> -12000, curve_length |-> 486, tangent_inv |-> 120, added_length |-> 0]
    @@ "Rld 60E1-1200_900-1_18.5 R" :> [type |-> "Fork", radius_1 |-> -9000, radius_2 |-> 12000, curve_length |-> 486, tangent_inv |-> 120, added_length |-> 0]
    @@ "Rld 60E1-1800_300-1_9 L" :> [type |-> "Fork", radius_1 |-> 3000, radius_2 |-> -18000, curve_length |-> 332, tangent_inv |-> 120, added_length |-> 0]
    @@ "Rld 60E1-1800_300-1_9 R" :> [type |-> "Fork", radius_1 |-> -3000, radius_2 |-> 18000, curve_length |-> 332, tangent_inv |-> 120, added_length |-> 0]
    @@ "Rld 60E1-1800_600-1_14 L" :> [type |-> "Fork", radius_1 |-> 6000, radius_2 |-> -18000, curve_length |-> 428, tangent_inv |-> 120, added_length |-> 0]
    @@ "Rld 60E1-1800_600-1_14 R" :> [type |-> "Fork", radius_1 |-> -6000, radius_2 |-> 18000, curve_length |-> 428, tangent_inv |-> 120, added_length |-> 0]
    @@ "Rld 60E1-1800_900-1_18.5 L" :> [type |-> "Fork", radius_1 |-> 9000, radius_2 |-> -18000, curve_length |-> 486, tangent_inv |-> 120, added_length |-> 0]
    @@ "Rld 60E1-1800_900-1_18.5 R" :> [type |-> "Fork", radius_1 |-> -9000, radius_2 |-> 18000, curve_length |-> 486, tangent_inv |-> 120, added_length |-> 0]
    @@ "Rld 60E1-2500_1200-1_22 L" :> [type |-> "Fork", radius_1 |-> 12000, radius_2 |-> -25000, curve_length |-> 545, tangent_inv |-> 120, added_length |-> 0]
    @@ "Rld 60E1-2500_1200-1_22 R" :> [type |-> "Fork", radius_1 |-> -12000, radius_2 |-> 25000, curve_length |-> 545, tangent_inv |-> 120, added_length |-> 0]
    @@ "Rld 60E1-2500_250-1_8.5 L" :> [type |-> "Fork", radius_1 |-> 2500, radius_2 |-> -25000, curve_length |-> 293, tangent_inv |-> 120, added_length |-> 0]
    @@ "Rld 60E1-2500_250-1_8.5 R" :> [type |-> "Fork", radius_1 |-> -2500, radius_2 |-> 25000, curve_length |-> 293, tangent_inv |-> 120, added_length |-> 0]
    @@ "Rld 60E1-2500_400-1_10.5 L" :> [type |-> "Fork", radius_1 |-> 4000, radius_2 |-> -25000, curve_length |-> 380, tangent_inv |-> 120, added_length |-> 0]
    @@ "Rld 60E1-2500_400-1_10.5 R" :> [type |-> "Fork", radius_1 |-> -4000, radius_2 |-> 25000, curve_length |-> 380, tangent_inv |-> 120, added_length |-> 0]
    @@ "Rld 60E1-2500_600-1_14 L" :> [type |-> "Fork", radius_1 |-> 6000, radius_2 |-> -25000, curve_length |-> 428, tangent_inv |-> 120, added_length |-> 0]
    @@ "Rld 60E1-2500_600-1_14 R" :> [type |-> "Fork", radius_1 |-> -6000, radius_2 |-> 25000, curve_length |-> 428, tangent_inv |-> 120, added_length |-> 0]
    @@ "Rld 60E1-2500_900-1_17 L" :> [type |-> "Fork", radius_1 |-> 9000, radius_2 |-> -25000, curve_length |-> 521, tangent_inv |-> 120, added_length |-> 0]
    @@ "Rld 60E1-2500_900-1_17 R" :> [type |-> "Fork", radius_1 |-> -9000, radius_2 |-> 25000, curve_length |-> 521, tangent_inv |-> 120, added_length |-> 0]
    @@ "Rld 60E1-600_300-1_9 L" :> [type |-> "Fork", radius_1 |-> 3000, radius_2 |-> -6000, curve_length |-> 299, tangent_inv |-> 120, added_length |-> 0]
    @@ "Rld 60E1-600_300-1_9 R" :> [type |-> "Fork", radius_1 |-> -3000, radius_2 |-> 6000, curve_length |-> 299, tangent_inv |-> 120, added_length |-> 0]
    @@ "Rld 60E1-650_450-1_15 L" :> [type |-> "Fork", radius_1 |-> 4500, radius_2 |-> -6500, curve_length |-> 300, tangent_inv |-> 120, added_length |-> 0]
    @@ "Rld 60E1-650_450-1_15 R" :> [type |-> "Fork", radius_1 |-> -4500, radius_2 |-> 6500, curve_length |-> 300, tangent_inv |-> 120, added_length |-> 0]
    @@ "Rld 60E1-700_190-1_7.5 L" :> [type |-> "Fork", radius_1 |-> 1900, radius_2 |-> -7000, curve_length |-> 252, tangent_inv |-> 90, added_length |-> 0]
    @@ "Rld 60E1-700_190-1_7.5 R" :> [type |-> "Fork", radius_1 |-> -1900, radius_2 |-> 7000, curve_length |-> 252, tangent_inv |-> 90, added_length |-> 0]
    @@ "Rld 60E1-700_300-1_10 L" :> [type |-> "Fork", radius_1 |-> 3000, radius_2 |-> -7000, curve_length |-> 294, tangent_inv |-> 90, added_length |-> 0]
    @@ "Rld 60E1-700_300-1_10 R" :> [type |-> "Fork", radius_1 |-> -3000, radius_2 |-> 7000, curve_length |-> 294, tangent_inv |-> 90, added_length |-> 0]
    @@ "Rld 60E1-700_500-1_14 L" :> [type |-> "Fork", radius_1 |-> 5000, radius_2 |-> -7000, curve_length |-> 357, tangent_inv |-> 90, added_length |-> 0]
    @@ "Rld 60E1-700_500-1_14 R" :> [type |-> "Fork", radius_1 |-> -5000, radius_2 |-> 7000, curve_length |-> 357, tangent_inv |-> 90, added_length |-> 0]
    @@ "Rld 60E1-900_300-1_9 L" :> [type |-> "Fork", radius_1 |-> 3000, radius_2 |-> -9000, curve_length |-> 332, tangent_inv |-> 120, added_length |-> 0]
    @@ "Rld 60E1-900_300-1_9 R" :> [type |-> "Fork", radius_1 |-> -3000, radius_2 |-> 9000, curve_length |-> 332, tangent_inv |-> 120, added_length |-> 0]
    @@ "Rld 60E1-900_450-1_12 L" :> [type |-> "Fork", radius_1 |-> 4500, radius_2 |-> -9000, curve_length |-> 374, tangent_inv |-> 90, added_length |-> 0]
    @@ "Rld 60E1-900_450-1_12 R" :> [type |-> "Fork", radius_1 |-> -4500, radius_2 |-> 9000, curve_length |-> 374, tangent_inv |-> 90, added_length |-> 0]
    @@ "Rld 60E1-900_600-1_15 L" :> [type |-> "Fork", radius_1 |-> 6000, radius_2 |-> -9000, curve_length |-> 400, tangent_inv |-> 120, added_length |-> 0]
    @@ "Rld 60E1-900_600-1_15 R" :> [type |-> "Fork", radius_1 |-> -6000, radius_2 |-> 9000, curve_length |-> 400, tangent_inv |-> 120, added_length |-> 0]
    @@ "Rlds 60E1-1000-1000-1_23" :> [type |-> "Fork", radius_1 |-> 10000, radius_2 |-> -10000, curve_length |-> 435, tangent_inv |-> 220, added_length |-> 0]
    @@ "Rlds 60E1-190-190-1_9" :> [type |-> "Fork", radius_1 |-> 1900, radius_2 |-> -1900, curve_length |-> 212, tangent_inv |-> 90, added_length |-> 0]
    @@ "Rlds 60E1-600-600-1_18.5" :> [type |-> "Fork", radius_1 |-> 5999, radius_2 |-> -6000, curve_length |-> 332, tangent_inv |-> 90, added_length |-> 0]
    @@ "Rlj 60E1-1200_300-1_7 L" :> [type |-> "Fork", radius_1 |-> 3000, radius_2 |-> 12000, curve_length |-> 426, tangent_inv |-> 120, added_length |-> 0]
    @@ "Rlj 60E1-1200_300-1_7 R" :> [type |-> "Fork", radius_1 |-> -3000, radius_2 |-> -12000, curve_length |-> 426, tangent_inv |-> 120, added_length |-> 0]
    @@ "Rlj 60E1-1200_600-1_9 L" :> [type |-> "Fork", radius_1 |-> 6000, radius_2 |-> 12000, curve_length |-> 680, tangent_inv |-> 120, added_length |-> 0]
    @@ "Rlj 60E1-1200_600-1_9 R" :> [type |-> "Fork", radius_1 |-> -6000, radius_2 |-> -12000, curve_length |-> 680, tangent_inv |-> 120, added_length |-> 0]
    @@ "Rlj 60E1-1500_450-1_9 L" :> [type |-> "Fork", radius_1 |-> 4500, radius_2 |-> 15000, curve_length |-> 498, tangent_inv |-> 120, added_length |-> 0]
    @@ "Rlj 60E1-1500_450-1_9 R" :> [type |-> "Fork", radius_1 |-> -4500, radius_2 |-> -15000, curve_length |-> 498, tangent_inv |-> 120, added_length |-> 0]
    @@ "Rlj 60E1-1800_300-1_7.5 L" :> [type |-> "Fork", radius_1 |-> 3000, radius_2 |-> 18000, curve_length |-> 390, tangent_inv |-> 120, added_length |-> 0]
    @@ "Rlj 60E1-1800_300-1_7.5 R" :> [type |-> "Fork", radius_1 |-> -3000, radius_2 |-> -18000, curve_length |-> 390, tangent_inv |-> 120, added_length |-> 0]
    @@ "Rlj 60E1-1800_450-1_9 L" :> [type |-> "Fork", radius_1 |-> 4500, radius_2 |-> 18000, curve_length |-> 498, tangent_inv |-> 120, added_length |-> 0]
    @@ "Rlj 60E1-1800_450-1_9 R" :> [type |-> "Fork", radius_1 |-> -4500, radius_2 |-> -18000, curve_length |-> 498, tangent_inv |-> 120, added_length |-> 0]
    @@ "Rlj 60E1-1800_600-1_10 L" :> [type |-> "Fork", radius_1 |-> 5995, radius_2 |-> 18000, curve_length |-> 599, tangent_inv |-> 120, added_length |-> 0]
    @@ "Rlj 60E1-1800_600-1_10 R" :> [type |-> "Fork", radius_1 |-> -5995, radius_2 |-> -18000, curve_length |-> 599, tangent_inv |-> 120, added_length |-> 0]
    @@ "Rlj 60E1-600_300-1_6 L" :> [type |-> "Fork", radius_1 |-> 3000, radius_2 |-> 6000, curve_length |-> 480, tangent_inv |-> 90, added_length |-> 0]
    @@ "Rlj 60E1-600_300-1_6 R" :> [type |-> "Fork", radius_1 |-> -3000, radius_2 |-> -6000, curve_length |-> 480, tangent_inv |-> 90, added_length |-> 0]
    @@ "Rlj 60E1-650_190-1_20 L" :> [type |-> "Fork", radius_1 |-> 1900, radius_2 |-> 6500, curve_length |-> 325, tangent_inv |-> 90, added_length |-> 0]
    @@ "Rlj 60E1-650_190-1_20 R" :> [type |-> "Fork", radius_1 |-> -1900, radius_2 |-> -6500, curve_length |-> 325, tangent_inv |-> 90, added_length |-> 0]
    @@ "Rlj 60E1-750_190-1_6 L" :> [type |-> "Fork", radius_1 |-> 1900, radius_2 |-> 7500, curve_length |-> 314, tangent_inv |-> 90, added_length |-> 0]
    @@ "Rlj 60E1-750_190-1_6 R" :> [type |-> "Fork", radius_1 |-> -1900, radius_2 |-> -7500, curve_length |-> 314, tangent_inv |-> 90, added_length |-> 0]
    @@ "Rlj 60E1-800_250-1_6.5 L" :> [type |-> "Fork", radius_1 |-> 2500, radius_2 |-> 8000, curve_length |-> 382, tangent_inv |-> 90, added_length |-> 0]
    @@ "Rlj 60E1-800_250-1_6.5 R" :> [type |-> "Fork", radius_1 |-> -2500, radius_2 |-> -8000, curve_length |-> 382, tangent_inv |-> 90, added_length |-> 0]
    @@ "Rlj 60E1-900_300-1_7.5 L" :> [type |-> "Fork", radius_1 |-> 3000, radius_2 |-> 9000, curve_length |-> 398, tangent_inv |-> 90, added_length |-> 0]
    @@ "Rlj 60E1-900_300-1_7.5 R" :> [type |-> "Fork", radius_1 |-> -3000, radius_2 |-> -9000, curve_length |-> 398, tangent_inv |-> 90, added_length |-> 0]
    @@ "Rlj 60E1-900_300-1_9 L" :> [type |-> "Fork", radius_1 |-> 3000, radius_2 |-> 9000, curve_length |-> 498, tangent_inv |-> 120, added_length |-> 0]
    @@ "Rlj 60E1-900_300-1_9 R" :> [type |-> "Fork", radius_1 |-> -3000, radius_2 |-> -9000, curve_length |-> 498, tangent_inv |-> 120, added_length |-> 0]
    @@ "Rlj 60E1-900_450-1_7.5 L" :> [type |-> "Fork", radius_1 |-> 4500, radius_2 |-> 9000, curve_length |-> 590, tangent_inv |-> 90, added_length |-> 0]
    @@ "Rlj 60E1-900_450-1_7.5 R" :> [type |-> "Fork", radius_1 |-> -4500, radius_2 |-> -9000, curve_length |-> 590, tangent_inv |-> 90, added_length |-> 0]
    @@ "Rz 60E1-1200-1_18.5 L" :> [type |-> "Fork", radius_1 |-> 12000, radius_2 |-> 0, curve_length |-> 648, tangent_inv |-> 185, added_length |-> 0]
    @@ "Rz 60E1-1200-1_18.5 R" :> [type |-> "Fork", radius_1 |-> -12000, radius_2 |-> 0, curve_length |-> 648, tangent_inv |-> 185, added_length |-> 0]
    @@ "Rz 60E1-190-1_7.5 L" :> [type |-> "Fork", radius_1 |-> 1900, radius_2 |-> 0, curve_length |-> 252, tangent_inv |-> 75, added_length |-> 0]
    @@ "Rz 60E1-190-1_7.5 R" :> [type |-> "Fork", radius_1 |-> -1900, radius_2 |-> 0, curve_length |-> 252, tangent_inv |-> 75, added_length |-> 0]
    @@ "Rz 60E1-190-1_9 L" :> [type |-> "Fork", radius_1 |-> 0, radius_2 |-> 1900, curve_length |-> 210, tangent_inv |-> 90, added_length |-> 61]
    @@ "Rz 60E1-190-1_9 R" :> [type |-> "Fork", radius_1 |-> 0, radius_2 |-> -1900, curve_length |-> 210, tangent_inv |-> 90, added_length |-> 61]
    @@ "Rz 60E1-205-1_9 L" :> [type |-> "Fork", radius_1 |-> 2050, radius_2 |-> 0, curve_length |-> 227, tangent_inv |-> 90, added_length |-> 54]
    @@ "Rz 60E1-205-1_9 R" :> [type |-> "Fork", radius_1 |-> -2050, radius_2 |-> 0, curve_length |-> 227, tangent_inv |-> 90, added_length |-> 54]
    @@ "Rz 60E1-2500-1_26.5 L" :> [type |-> "Fork", radius_1 |-> 25000, radius_2 |-> 0, curve_length |-> 943, tangent_inv |-> 265, added_length |-> 0]
    @@ "Rz 60E1-2500-1_26.5 R" :> [type |-> "Fork", radius_1 |-> -25000, radius_2 |-> 0, curve_length |-> 943, tangent_inv |-> 265, added_length |-> 0]
    @@ "Rz 60E1-265-1_10 L" :> [type |-> "Fork", radius_1 |-> 0, radius_2 |-> 2650, curve_length |-> 264, tangent_inv |-> 100, added_length |-> 48]
    @@ "Rz 60E1-265-1_10 R" :> [type |-> "Fork", radius_1 |-> 0, radius_2 |-> -2650, curve_length |-> 264, tangent_inv |-> 100, added_length |-> 48]
    @@ "Rz 60E1-300-1_9 L" :> [type |-> "Fork", radius_1 |-> 3000, radius_2 |-> 0, curve_length |-> 332, tangent_inv |-> 90, added_length |-> 0]
    @@ "Rz 60E1-300-1_9 R" :> [type |-> "Fork", radius_1 |-> -3000, radius_2 |-> 0, curve_length |-> 332, tangent_inv |-> 90, added_length |-> 0]
    @@ "Rz 60E1-500-1_12 L" :> [type |-> "Fork", radius_1 |-> 5000, radius_2 |-> 0, curve_length |-> 416, tangent_inv |-> 120, added_length |-> 0]
    @@ "Rz 60E1-500-1_12 R" :> [type |-> "Fork", radius_1 |-> -5000, radius_2 |-> 0, curve_length |-> 416, tangent_inv |-> 120, added_length |-> 0]
    @@ "Rz 60E1-760-1_14 L" :> [type |-> "Fork", radius_1 |-> 7600, radius_2 |-> 0, curve_length |-> 542, tangent_inv |-> 140, added_length |-> 0]
    @@ "Rz 60E1-760-1_14 R" :> [type |-> "Fork", radius_1 |-> -7600, radius_2 |-> 0, curve_length |-> 542, tangent_inv |-> 140, added_length |-> 0]
    @@ "Crossing" :> [type |-> "Crossing", length |-> 332, tangent_inv |-> 90]
    @@ "Crossing4.444" :> [type |-> "Crossing", length |-> 200, tangent_inv |-> 44]

\* TRACK_STRUCTURES.get(name); a name is the text of one word.
TRACK_STRUCTURES_get(structure_name) ==
    IF Len(structure_name) = 1 /\ structure_name[1] \in DOMAIN TRACK_STRUCTURES
    THEN Some(TRACK_STRUCTURES[structure_name[1]]) ELSE None

\* (1.0 / tangent_inv).atan() in milliradians, by the series x - x^3/3.
atan_recip(tangent_inv) ==
    LET x == RoundDiv(DirScale * Scale, tangent_inv) IN
    x - RoundDiv(x * x * x, 3 * DirScale * DirScale)

\* v[i] of a Vec, counting from 0.
At(v, i) == v[i + 1]

\* Vec::remove(i), counting from 0: the vector without its element i.
Remove(v, i) == SubSeq(v, 1, i) \o SubSeq(v, i + 2, Len(v))

\* ------------------------------------------------------------------------
\* build_fork_switch
\* ------------------------------------------------------------------------
\* A variant of fork_has_extra that takes a zero added length for an extension.
fork_has_extra_at_zero(fork) == fork.added_length >= 0

\* The test of the branch that takes the extension's subtrack entries.
fork_has_extra(fork) == fork.added_length > 0

\* A variant of fork_end_ids that takes the two terminals of a fork without
\* extension in the order of the list.
fork_end_ids_in_order(has_extra, subtracks) ==
    IF has_extra THEN << At(subtracks, 5), At(subtracks, 6) >>
    ELSE << At(subtracks, 3), At(subtracks, 4) >>

\* first_end_id and second_end_id: entries 5 and 6 after the two entries of
\* the extension, else entries 4 and 3 (the slice 3..5 is destructured as
\* [second_end_id, first_end_id]).
fork_end_ids(has_extra, subtracks) ==
    IF has_extra THEN << At(subtracks, 5), At(subtracks, 6) >>
    ELSE << At(subtracks, 4), At(subtracks, 3) >>

build_fork_switch(start, fork, subtracks, structure_name) ==
    IF ~(Len(subtracks) >= 5) THEN Err("Fork switch must have at least 5 subtracks")
    ELSE IF fork_has_extra(fork) /\ Len(subtracks) # 7
    THEN Err("Fork switch with added length must have exactly 7 subtracks")
    ELSE IF ~fork_has_extra(fork) /\ Len(subtracks) # 5
    THEN Err("Fork switch without added length must have exactly 5 subtracks")
    ELSE
    LET has_extra == fork_has_extra(fork)
        first_extra_id == At(subtracks, 3)
        second_extra_id == At(subtracks, 4)
        first_end_id == fork_end_ids(fork_has_extra(fork), subtracks)[1]
        second_end_id == fork_end_ids(fork_has_extra(fork), subtracks)[2]
        first_after_curve_id == IF has_extra THEN first_extra_id.own ELSE first_end_id.own
        second_after_curve_id == IF has_extra THEN second_extra_id.own ELSE second_end_id.own
        start_id == with_two_next(At(subtracks, 0), At(subtracks, 1).own, At(subtracks, 2).own)
        first_curve_id == with_one_next(with_prev(At(subtracks, 1), At(subtracks, 0).own),
                                        first_after_curve_id)
        second_curve_id == with_one_next(with_prev(At(subtracks, 2), At(subtracks, 0).own),
                                         second_after_curve_id)
    IN
    Try(TrackShape_arc_or_straight(start, fork.radius_1, fork.curve_length), LAMBDA first_curve_shape :
    Try(TrackShape_arc_or_straight(start, fork.radius_2, fork.curve_length), LAMBDA second_curve_shape :
    IF has_extra
    THEN Try(TrackShape_straight(TrackShape_end(first_curve_shape), fork.added_length),
             LAMBDA first_extra_shape :
         Try(TrackShape_straight(TrackShape_end(second_curve_shape), fork.added_length),
             LAMBDA second_extra_shape :
         Ok(<< Track_new(start_id, TrackShape_point(start)),
               Track_new(first_curve_id, first_curve_shape),
               Track_new(second_curve_id, second_curve_shape),
               Track_new(with_one_next(with_prev(first_extra_id, first_curve_id.own), first_end_id.own),
                         first_extra_shape),
               Track_new(with_one_next(with_prev(second_extra_id, second_curve_id.own), second_end_id.own),
                         second_extra_shape),
               Track_new_structure_end(with_prev(first_end_id, first_extra_id.own),
                                       TrackShape_point(TrackShape_end(first_extra_shape)),
                                       structure_name),
               Track_new_structure_end(with_prev(second_end_id, second_extra_id.own),
                                       TrackShape_point(TrackShape_end(second_extra_shape)),
                                       structure_name) >>)))
    ELSE Ok(<< Track_new(start_id, TrackShape_point(start)),
               Track_new(first_curve_id, first_curve_shape),
               Track_new(second_curve_id, second_curve_shape),
               Track_new_structure_end(with_prev(first_end_id, first_curve_id.own),
                                       TrackShape_point(TrackShape_end(first_curve_shape)),
                                       structure_name),
               Track_new_structure_end(with_prev(second_end_id, second_curve_id.own),
                                       TrackShape_point(TrackShape_end(second_curve_shape)),
                                       structure_name) >>)))

\* ------------------------------------------------------------------------
\* build_crossing
\* ------------------------------------------------------------------------
\* A variant of crossing_has_two that lets extra subtrack entries through.
crossing_has_at_least_two(subtracks) == Len(subtracks) >= 2

\* The ensure! at the top of build_crossing.
crossing_has_two(subtracks) == Len(subtracks) = 2

build_crossing(start, crossing, subtracks, structure_name) ==
    IF ~crossing_has_two(subtracks) THEN Err("Crossing must have exactly two subtracks")
    ELSE
    LET half_angle == RoundDiv(atan_recip(crossing.tangent_inv), 2)
        half_length == RoundDiv(crossing.length, 2)
        bd_start == [pos |-> start.pos, rotation |-> MatMul(start.rotation, from_rotation_y(-half_angle))]
        ac_start == [pos |-> start.pos, rotation |-> MatMul(start.rotation, from_rotation_y(half_angle))]
    IN
    Try(TrackShape_straight_around_point(bd_start, -half_length, half_length), LAMBDA shape_bd :
    Try(TrackShape_straight_around_point(ac_start, -half_length, half_length), LAMBDA shape_ac :
    Ok(<< Track_new_structure_end(At(subtracks, 0), shape_ac, structure_name),
          Track_new_structure_end(At(subtracks, 1), shape_bd, structure_name) >>)))

\* ------------------------------------------------------------------------
\* build_slip_switch
\* ------------------------------------------------------------------------
\* The closure build_straight_path: the five tracks of one through path.
build_straight_path(subtracks, structure_name, out_half_length, transition_begin, transition_end, center, center_rev, enter_outer_index, enter_transition_index, crossing_index, exit_transition_index, exit_outer_index) ==
    LET enter_outer_ids0 == At(subtracks, enter_outer_index)
        exit_outer_ids0 == At(subtracks, exit_outer_index)
        enter_transition_ids0 == with_prev(At(subtracks, enter_transition_index), enter_outer_ids0.own)
        exit_transition_ids0 == with_prev(At(subtracks, exit_transition_index), exit_outer_ids0.own)
        enter_outer_ids == with_one_next(enter_outer_ids0, enter_transition_ids0.own)
        exit_outer_ids == with_one_next(exit_outer_ids0, exit_transition_ids0.own)
        crossing_ids == with_one_next(with_prev(At(subtracks, crossing_index), enter_transition_ids0.own),
                                      exit_transition_ids0.own)
        enter_transition_ids == with_one_next(enter_transition_ids0, crossing_ids.own)
        exit_transition_ids == with_one_next(exit_transition_ids0, crossing_ids.own)
    IN
    Try(TrackShape_straight_around_point(center, -out_half_length, -transition_begin), LAMBDA s1 :
    Try(TrackShape_straight_around_point(center, -transition_begin, -transition_end), LAMBDA s2 :
    Try(TrackShape_straight_around_point(center, -transition_end, transition_end), LAMBDA s3 :
    Try(TrackShape_straight_around_point(center_rev, -transition_begin, -transition_end), LAMBDA s4 :
    Try(TrackShape_straight_around_point(center_rev, -out_half_length, -transition_begin), LAMBDA s5 :
    Ok(<< Track_new_structure_end(enter_outer_ids, s1, structure_name),
          Track_new(enter_transition_ids, s2),
          Track_new(crossing_ids, s3),
          Track_new(exit_transition_ids, s4),
          Track_new_structure_end(exit_outer_ids, s5, structure_name) >>))))))

\* The closure build_slip: the tracks of one diagonal, and the two through
\* paths as it leaves them (it writes enter_path[0].ids and exit_path[4].ids).
build_slip(subtracks, slip, start, curve_length, center_index, slip_ids, enter_path, exit_path, neg_radius) ==
    LET center_ids0 == At(subtracks, center_index) IN
    IF slip_ids # None THEN
        LET enter_ids0 == slip_ids[1][1]
            exit_ids0 == slip_ids[1][2]
            radius == IF neg_radius THEN -slip.radius ELSE slip.radius
            enter_ids == with_one_next(with_prev(enter_ids0, At(enter_path, 0).ids.own), center_ids0.own)
            exit_ids == with_one_next(with_prev(exit_ids0, center_ids0.own), At(exit_path, 4).ids.own)
            center_ids == with_one_next(with_prev(center_ids0, enter_ids0.own), exit_ids0.own)
        IN
        Try(TrackShape_arc_or_straight(TrackShape_end(At(enter_path, 0).shape), radius,
                                       slip.transition_length), LAMBDA enter_curve :
        Try(TrackShape_arc_or_straight(TrackShape_end(enter_curve), radius,
                                       curve_length - 2 * slip.transition_length), LAMBDA center_curve :
        Try(TrackShape_arc_or_straight(TrackShape_end(center_curve), radius,
                                       slip.transition_length), LAMBDA exit_curve :
        IF add_next_panics(At(enter_path, 0).ids)
        THEN Panic("add_next called on TracksIds with two next ids already set")
        ELSE IF add_next_panics(At(exit_path, 4).ids)
        THEN Panic("add_next called on TracksIds with two next ids already set")
        ELSE Ok([tracks |-> << Track_new(enter_ids, enter_curve),
                               Track_new(center_ids, center_curve),
                               Track_new(exit_ids, exit_curve) >>,
                 enter_path |-> [enter_path EXCEPT ![1].ids = add_next(@, enter_ids0.own)],
                 exit_path |-> [exit_path EXCEPT ![5].ids = add_next(@, exit_ids0.own)]]))))
    ELSE
        \* Don't add prev or next, this track is not usable
        Ok([tracks |-> << Track_new(center_ids0,
                                    TrackShape_straight_between(TrackShape_end(At(enter_path, 1).shape).pos,
                                                                TrackShape_end(At(exit_path, 3).shape).pos,
                                                                start.rotation)) >>,
            enter_path |-> enter_path,
            exit_path |-> exit_path])

\* The subtrack ids taken out of the list for the diagonals: with one
\* diagonal remove(13) then remove(6); with both remove(15), remove(14),
\* remove(7), remove(6).
left_slip_ids(slip, subtracks0) ==
    IF slip.left_slip /\ slip.right_slip THEN Some(<< At(subtracks0, 6), At(subtracks0, 14) >>)
    ELSE IF slip.left_slip THEN Some(<< At(subtracks0, 6), At(subtracks0, 13) >>)
    ELSE None

\* A variant of right_slip_ids that takes the first pair of a switch with both
\* diagonals, entries 6 and 14.
right_slip_ids_first_pair(slip, subtracks0) ==
    IF slip.left_slip /\ slip.right_slip THEN Some(<< At(subtracks0, 6), At(subtracks0, 14) >>)
    ELSE IF slip.right_slip THEN Some(<< At(subtracks0, 6), At(subtracks0, 13) >>)
    ELSE None

right_slip_ids(slip, subtracks0) ==
    IF slip.left_slip /\ slip.right_slip THEN Some(<< At(subtracks0, 7), At(subtracks0, 15) >>)
    ELSE IF slip.right_slip THEN Some(<< At(subtracks0, 6), At(subtracks0, 13) >>)
    ELSE None

\* A variant of remaining_subtracks that takes the exit curve's entry out one
\* place early: remove(12) for one diagonal, remove(14) twice for both.
remaining_subtracks_one_early(slip, subtracks0) ==
    IF slip.left_slip /\ slip.right_slip
    THEN Remove(Remove(Remove(Remove(subtracks0, 14), 14), 7), 6)
    ELSE IF slip.left_slip # slip.right_slip THEN Remove(Remove(subtracks0, 12), 6)
    ELSE subtracks0

\* The list that is left for the through paths and the centres.
remaining_subtracks(slip, subtracks0) ==
    IF slip.left_slip /\ slip.right_slip
    THEN Remove(Remove(Remove(Remove(subtracks0, 15), 14), 7), 6)
    ELSE IF slip.left_slip # slip.right_slip THEN Remove(Remove(subtracks0, 13), 6)
    ELSE subtracks0

\* The returned vector: left.tracks, right.tracks, first_path, second_path.
\* After the right diagonal its exit_path is first_path and its enter_path is
\* second_path.
slip_switch_tracks(left, right) ==
    IF ~IsOk(right) THEN right
    ELSE Ok(left.tracks \o right.val.tracks \o right.val.exit_path \o right.val.enter_path)

\* The right diagonal runs from second_path to first_path with -radius.
build_right_slip(start, slip, subtracks, curve_length, right_ids, left) ==
    IF ~IsOk(left) THEN left
    ELSE slip_switch_tracks(left.val,
                            build_slip(subtracks, slip, start, curve_length, 9, right_ids,
                                       left.val.exit_path, left.val.enter_path, TRUE))

\* The left diagonal runs from first_path to second_path.
build_slips(start, slip, subtracks, curve_length, left_ids, right_ids, first_path, second_path) ==
    IF ~IsOk(first_path) THEN first_path
    ELSE IF ~IsOk(second_path) THEN second_path
    ELSE build_right_slip(start, slip, subtracks, curve_length, right_ids,
                          build_slip(subtracks, slip, start, curve_length, 8, left_ids,
                                     first_path.val, second_path.val, FALSE))

\* A variant of required_cound that counts three entries for a diagonal.
required_cound_three_each(slip) ==
    12 + (IF slip.left_slip THEN 3 ELSE 0) + (IF slip.right_slip THEN 3 ELSE 0)

\* The subtrack count build_slip_switch asks for.
required_cound(slip) ==
    12 + (IF slip.left_slip THEN 2 ELSE 0) + (IF slip.right_slip THEN 2 ELSE 0)

build_slip_switch(start, slip, subtracks0, structure_name) ==
    LET angle == atan_recip(slip.tangent_inv)
        half_angle == RoundDiv(angle, 2)
        out_half_length == RoundDiv(slip.total_length, 2)
        curve_length == RoundDiv(slip.radius * angle, DirScale)
        transition_begin == out_half_length - slip.outer_length
        transition_end == transition_begin - slip.transition_length
    IN
    IF Len(subtracks0) # required_cound(slip) THEN Err("This slip switch must exactly at least N subtracks")
    ELSE build_slips(start, slip, remaining_subtracks(slip, subtracks0), curve_length,
                     left_slip_ids(slip, subtracks0), right_slip_ids(slip, subtracks0),
                     build_straight_path(remaining_subtracks(slip, subtracks0), structure_name,
                                         out_half_length, transition_begin, transition_end,
                                         Checkpoint_rotate(start, half_angle),
                                         Checkpoint_rotate(start, half_angle + PI),
                                         0, 4, 6, 10, 2),
                     build_straight_path(remaining_subtracks(slip, subtracks0), structure_name,
                                         out_half_length, transition_begin, transition_end,
                                         Checkpoint_rotate(start, -half_angle),
                                         Checkpoint_rotate(start, -half_angle + PI),
                                         1, 5, 7, 11, 3))

\* ------------------------------------------------------------------------
\* parse_track_structure
\* ------------------------------------------------------------------------
build_structure(start, track_structure, subtracks, structure_name) ==
    CASE track_structure.type = "Fork" -> build_fork_switch(start, track_structure, subtracks, structure_name)
      [] track_structure.type = "Slip" -> build_slip_switch(start, track_structure, subtracks, structure_name)
      [] track_structure.type = "Crossing" -> build_crossing(start, track_structure, subtracks, structure_name)

parse_track_structure(cells) ==
    IF ~(Len(cells) >= 19) THEN Err("Condition failed: cells.len() >= 19")
    ELSE Try(parse_i32(Cell(cells, 1)), LAMBDA id :
         Try(parse_position(Slice(cells, 3, 6)), LAMBDA pos :
         Try(parse_transform(Slice(cells, 6, 9)), LAMBDA rot :
         LET structure_name == Split(Cell(cells, 2), ",")[1] IN
         Try(parse_subtrack_ids(Cell(cells, 9)), LAMBDA subtracks :
         IF TRACK_STRUCTURES_get(structure_name) = None THEN Err("Unknown switch type")
         ELSE Try(build_structure(Checkpoint_new(pos, rot), TRACK_STRUCTURES_get(structure_name)[1],
                                  subtracks, structure_name), LAMBDA built :
              Ok([id |-> id, tracks |-> built]))))))

\* ------------------------------------------------------------------------
\* find_failed_connections
\* ------------------------------------------------------------------------
\* The tolerance 1.0 on a squared distance.
Tolerance == Scale * Scale

\* A variant of check_neighbour that fails a link already at the tolerance.
check_neighbour_inclusive(tracks_, index, track, id, pos) ==
    IF id \in DOMAIN index THEN
        LET other == At(tracks_, index[id])
            d_start == << TrackShape_start(other.shape).pos,
                          xz_length_squared(VSub(TrackShape_start(other.shape).pos, pos)) >>
            d_end == << TrackShape_end(other.shape).pos,
                        xz_length_squared(VSub(TrackShape_end(other.shape).pos, pos)) >>
            dist_min == IF d_end[2] < d_start[2] THEN d_end ELSE d_start
        IN
        IF dist_min[2] >= Tolerance
        THEN << [pos1 |-> pos, pos2 |-> dist_min[1], track1 |-> track, track2 |-> other] >>
        ELSE << >>
    ELSE << >>

\* A variant of check_neighbour that never swaps: it reports the neighbour's
\* start whichever endpoint is nearer.
check_neighbour_start_only(tracks_, index, track, id, pos) ==
    IF id \in DOMAIN index THEN
        LET other == At(tracks_, index[id])
            d_start == xz_length_squared(VSub(TrackShape_start(other.shape).pos, pos))
            d_end == xz_length_squared(VSub(TrackShape_end(other.shape).pos, pos))
        IN
        IF (IF d_end < d_start THEN d_end ELSE d_start) > Tolerance
        THEN << [pos1 |-> pos, pos2 |-> TrackShape_start(other.shape).pos,
                 track1 |-> track, track2 |-> other] >>
        ELSE << >>
    ELSE << >>

\* The closure check_neighbour: the FailedConnection it pushes, if any.
check_neighbour(tracks_, index, track, id, pos) ==
    IF id \in DOMAIN index THEN
        LET other == At(tracks_, index[id])
            d_start == << TrackShape_start(other.shape).pos,
                          xz_length_squared(VSub(TrackShape_start(other.shape).pos, pos)) >>
            d_end == << TrackShape_end(other.shape).pos,
                        xz_length_squared(VSub(TrackShape_end(other.shape).pos, pos)) >>
            dist_min == IF d_end[2] < d_start[2] THEN d_end ELSE d_start
            dist_squared == dist_min[2]
        IN
        IF dist_squared > Tolerance
        THEN << [pos1 |-> pos, pos2 |-> dist_min[1], track1 |-> track, track2 |-> other] >>
        ELSE << >>
    ELSE << >>

\* One turn of the loop over the tracks: the predecessor, then the successors.
check_track(tracks_, index, track) ==
    LET start_pos == TrackShape_start(track.shape).pos
        end_pos == TrackShape_end(track.shape).pos
        by_prev == IF track.ids.prev # None
                   THEN check_neighbour(tracks_, index, track, track.ids.prev[1], start_pos)
                   ELSE << >>
        by_next == CASE Len(track.ids.next) = 0 -> << >>
                     [] Len(track.ids.next) = 1 ->
                          check_neighbour(tracks_, index, track, track.ids.next[1], end_pos)
                     [] Len(track.ids.next) = 2 ->
                          check_neighbour(tracks_, index, track, track.ids.next[1], end_pos)
                          \o check_neighbour(tracks_, index, track, track.ids.next[2], end_pos)
    IN by_prev \o by_next

RECURSIVE failed_from(_, _, _)
failed_from(tracks_, index, i) ==
    IF i > Len(tracks_) THEN << >>
    ELSE check_track(tracks_, index, tracks_[i]) \o failed_from(tracks_, index, i + 1)

\* A variant of find_failed_connections that looks ids up while the index is
\* being filled: track i sees the entries of the tracks up to itself.
RECURSIVE failed_from_seen(_, _, _)
failed_from_seen(tracks_, index, i) ==
    IF i > Len(tracks_) THEN << >>
    ELSE check_track(tracks_, [k \in { x \in DOMAIN index : index[x] < i } |-> index[k]], tracks_[i])
         \o failed_from_seen(tracks_, index, i + 1)

find_failed_connections_while_indexing(tracks_, index) == failed_from_seen(tracks_, index, 1)

find_failed_connections(tracks_, index) == failed_from(tracks_, index, 1)

\* ------------------------------------------------------------------------
\* parse: the id index
\* ------------------------------------------------------------------------
\* A variant of insert that keeps the value a key already has.
insert_if_absent(map, key, value) ==
    [x \in DOMAIN map \cup {key} |-> IF x \in DOMAIN map THEN map[x] ELSE value]

\* HashMap::insert(key, value).
insert(map, key, value) == [x \in DOMAIN map \cup {key} |-> IF x = key THEN value ELSE map[x]]

\* The loop over tracks.iter().enumerate(): positions count from 0.
RECURSIVE index_from(_, _, _)
index_from(map, tracks_, i) ==
    IF i > Len(tracks_) THEN map
    ELSE index_from(insert(map, tracks_[i].ids.own, i - 1), tracks_, i + 1)

build_track_indexes(tracks_) == index_from(<< >>, tracks_, 1)

\* ------------------------------------------------------------------------
\* parse: the closure run on each line
\* ------------------------------------------------------------------------
IgnoredKinds ==
    { <<"TrackObject">>, <<"Misc">>, <<"Fence">>, <<"Wires">>, <<"TerrainPoint">>, <<"MiscGroup">>,
      <<"EndMiscGroup">>, <<"SSPController">>, <<"SSPRepeater">>, <<"scv029">>, <<"shv001">>,
      <<"WorldRotation">>, <<"WorldTranslation">>, <<"MainCamera">>, <<"CameraHome">> }

Step(st, trks, printed, panicked) == [state |-> st, tracks |-> trks, log |-> printed, panic |-> panicked]

\* A variant of on_track that gives up the whole file on a row that fails.
on_track_aborting(st, trks, r) ==
    CASE r.tag = "Ok" -> Step(st, Append(trks, r.val), << >>, FALSE)
      [] r.tag = "Err" -> Step(st, trks, <<"Failed to parse track", r.msg>>, TRUE)
      [] r.tag = "Panic" -> Step(st, trks, <<"panic", r.msg>>, TRUE)

\* Ok(track) => tracks.push(track); Err(e) => println!
on_track(st, trks, r) ==
    CASE r.tag = "Ok" -> Step(st, Append(trks, r.val), << >>, FALSE)
      [] r.tag = "Err" -> Step(st, trks, <<"Failed to parse track", r.msg>>, FALSE)
      [] r.tag = "Panic" -> Step(st, trks, <<"panic", r.msg>>, TRUE)

\* Ok(switch) => tracks.extend(switch.tracks); Err(e) => println!
on_track_structure(st, trks, r) ==
    CASE r.tag = "Ok" -> Step(st, trks \o r.val.tracks, << >>, FALSE)
      [] r.tag = "Err" -> Step(st, trks, <<"Failed to parse switch", r.msg>>, FALSE)
      [] r.tag = "Panic" -> Step(st, trks, <<"panic", r.msg>>, TRUE)

in_default(st, trks, cells) ==
    LET row_kind == Cell(cells, 0) IN
    CASE row_kind = <<"Route">> -> Step("Route", trks, << >>, FALSE)
      [] row_kind = <<"TerrainGroup">> -> Step("TerrainGroup", trks, << >>, FALSE)
      [] row_kind = <<"Track">> -> on_track(st, trks, parse_track(cells))
      [] row_kind = <<"TrackStructure">> -> on_track_structure(st, trks, parse_track_structure(cells))
      [] row_kind \in IgnoredKinds -> Step(st, trks, << >>, FALSE)
      [] OTHER -> Step(st, trks, <<"Unknown kind", row_kind>>, FALSE)

\* A variant of in_route that still reads the Track rows of the section.
in_route_reading_tracks(st, trks, cells) ==
    IF Cell(cells, 0) = <<"EndRoute">> THEN Step("Default", trks, << >>, FALSE)
    ELSE IF Cell(cells, 0) = <<"Track">> THEN on_track(st, trks, parse_track(cells))
    ELSE Step(st, trks, << >>, FALSE)

in_route(st, trks, cells) ==
    IF Cell(cells, 0) = <<"EndRoute">> THEN Step("Default", trks, << >>, FALSE)
    ELSE Step(st, trks, << >>, FALSE)

\* A variant of in_terrain_group that takes either end tag for the end of the
\* section.
in_terrain_group_any_end(st, trks, cells) ==
    IF Cell(cells, 0) \in {<<"EndTerrainGroup">>, <<"EndRoute">>} THEN Step("Default", trks, << >>, FALSE)
    ELSE Step(st, trks, << >>, FALSE)

in_terrain_group(st, trks, cells) ==
    IF Cell(cells, 0) = <<"EndTerrainGroup">> THEN Step("Default", trks, << >>, FALSE)
    ELSE Step(st, trks, << >>, FALSE)

\* The body of lines.flatten().for_each(|line| ...).
process_line(st, trks, line) ==
    IF line = << >> THEN Step(st, trks, << >>, FALSE)
    ELSE CASE st = "Default" -> in_default(st, trks, line)
           [] st = "Route" -> in_route(st, trks, line)
           [] st = "TerrainGroup" -> in_terrain_group(st, trks, line)

\* ------------------------------------------------------------------------
\* Input files: the lines the reader is given
\* ------------------------------------------------------------------------
\* A file has at most MaxLines lines, at most MaxGeoRows of them tagged Track
\* or TrackStructure.
MaxLines == 3

MaxGeoRows == 2

DigitTok(d) == CASE d = 0 -> "0" [] d = 1 -> "1" [] d = 2 -> "2" [] d = 3 -> "3" [] d = 4 -> "4"
                 [] d = 5 -> "5" [] d = 6 -> "6" [] d = 7 -> "7" [] d = 8 -> "8" [] d = 9 -> "9"

\* The decimal text of a natural number, of an integer, and of a fixed-point
\* number (one fraction digit).
RECURSIVE Dec(_)
Dec(m) == IF m < 10 THEN <<DigitTok(m)>> ELSE Append(Dec(m \div 10), DigitTok(m % 10))

SignedDec(m) == IF m < 0 THEN <<"-">> \o Dec(-m) ELSE Dec(m)

Fx(v) == (IF v < 0 THEN <<"-">> ELSE << >>) \o Dec(Abs(v) \div Scale) \o <<".">> \o Dec(Abs(v) % Scale)

Pad(c) == [i \in 1..c |-> << >>]

\* Track;id;Track;x;y;z;rx;ry;rz;length;radius;next;prev; and 9 more cells
TrackLine(id, pos, y_deg, length, radius, next, prev) ==
    << <<"Track">>, id, <<"Track">>, Fx(pos[1]), Fx(pos[2]), Fx(pos[3]),
       <<"0">>, y_deg, <<"0">>, length, radius, next, prev >> \o Pad(9)

\* Track;id;BTrack;start;control1;end;control2;next;prev; and one more cell
BTrackLine(id, start_pos, end_pos, next, prev) ==
    << <<"Track">>, id, <<"BTrack">>, Fx(start_pos[1]), Fx(start_pos[2]), Fx(start_pos[3]),
       <<"0">>, <<"0">>, <<"1">>, Fx(end_pos[1]), Fx(end_pos[2]), Fx(end_pos[3]),
       <<"0">>, <<"0">>, <<"-", "1">>, next, prev, << >> >>

\* The subtrack cell own:prev:next,own:prev:next,... of a list of TrackIds.
RECURSIVE SubCell(_)
SubCell(ids) ==
    IF ids = << >> THEN << >>
    ELSE LET h == Head(ids)
             part == SignedDec(h.own) \o <<":">> \o (IF h.prev = None THEN << >> ELSE SignedDec(h.prev[1]))
                     \o <<":">> \o (IF h.next = << >> THEN << >> ELSE SignedDec(h.next[1]))
         IN IF Len(ids) = 1 THEN part ELSE part \o <<",">> \o SubCell(Tail(ids))

\* TrackStructure;id;name;x;y;z;rx;ry;rz;subtracks; and 9 more cells
StructureLine(id, name, pos, y_deg, subcell) ==
    << <<"TrackStructure">>, id, name, Fx(pos[1]), Fx(pos[2]), Fx(pos[3]),
       <<"0">>, y_deg, <<"0">>, subcell >> \o Pad(9)

\* c subtrack entries with own ids base, base + 1, ...; entry 0 names `prev`
\* as its predecessor and the last entry names `next` as its successor.
SubIds(base, c, prev, next) ==
    [i \in 1..c |-> [own |-> base + i - 1,
                     prev |-> IF i = 1 THEN prev ELSE None,
                     next |-> IF i = c THEN next ELSE << >>]]

Origin == <<0, 0, 0>>

\* The checked track: id 1 from the origin, 10 units along +Z, at elevation
\* y; its successor is none, track 2, an id of no track, or its own id.
CheckedLines ==
    { TrackLine(Dec(1), <<0, y, 0>>, <<"0">>, <<"1", "0">>, <<"0">>, next, << >>) :
        y \in {0, 50}, next \in {<< >>, Dec(2), Dec(9), Dec(1)} }

\* Where the neighbour (id 2, 10 units long) starts and heads: its nearer end is
\* 0, less than 1, exactly 1, just over 1, and 10 units from the end of track 1.
NeighbourPoses ==
    { <<0, 100, 0>>, <<7, 107, 0>>, <<0, 110, 0>>, <<1, 110, 0>>, <<0, 200, 0>>,
      <<0, 200, 180>>, <<0, 300, 180>> }

NeighbourLines ==
    { TrackLine(Dec(2), <<g[1], 0, g[2]>>, Dec(g[3]), <<"1", "0">>, <<"0">>, << >>, prev) :
        g \in NeighbourPoses, prev \in {<< >>, Dec(1)} }

\* An arc and a Bezier curve, and a second track with id 1, 30 units up the
\* axis.
OtherTrackLines ==
    { TrackLine(Dec(3), <<0, 0, 100>>, <<"9", "0">>, <<"2", "1">>, <<"1", "9", "0">>, << >>, Dec(1)),
      BTrackLine(Dec(4), <<0, 0, 100>>, <<50, 10, 150>>, Dec(2), Dec(1)),
      TrackLine(Dec(1), <<0, 0, 300>>, <<"0">>, <<"1", "0">>, <<"0">>, << >>, << >>) }

ForkName == <<"Rz 60E1-300-1_9 R">>

ForkExtName == <<"Rz 60E1-190-1_9 L">>

SlipName == <<"Rkp 60E1-190-1_9 ab">>

DoubleSlipName == <<"Rkpd 60E1-190-1_9">>

CrossingName == <<"Crossing">>

StructureOkLines ==
    { StructureLine(Dec(5), ForkName, <<0, 0, 100>>, <<"0">>, SubCell(SubIds(10, 5, Some(1), <<2>>))),
      StructureLine(Dec(5), ForkExtName \o <<",", "x">>, <<0, 0, 100>>, <<"9", "0">>,
                    SubCell(SubIds(10, 7, Some(1), << >>)) \o <<",">>),
      StructureLine(Dec(6), CrossingName, <<0, 0, 100>>, <<"0">>, SubCell(SubIds(20, 2, Some(1), <<2>>))),
      StructureLine(Dec(7), SlipName, <<0, 0, 100>>, <<"0">>, SubCell(SubIds(30, 14, Some(1), << >>))),
      StructureLine(Dec(8), DoubleSlipName, <<0, 0, 100>>, <<"0">>, SubCell(SubIds(30, 16, None, <<2>>))) }

\* Rows that fail to parse: a malformed numeric field, too few fields, an
\* unknown structure name, a malformed subtrack entry, a wrong subtrack count.
MalformedNumberLines ==
    { TrackLine(<<"x">>, Origin, <<"0">>, <<"1", "0">>, <<"0">>, << >>, << >>),
      TrackLine(Dec(1), Origin, <<"0">>, <<"1", ".", "2", ".", "3">>, <<"0">>, << >>, << >>),
      TrackLine(Dec(1), Origin, <<"0">>, <<"1", "0">>, <<"0">>, <<"-">>, << >>),
      BTrackLine(Dec(4), Origin, <<0, 0, 100>>, << >>, <<"x">>),
      StructureLine(<< >>, CrossingName, Origin, <<"0">>, SubCell(SubIds(20, 2, None, << >>))),
      StructureLine(Dec(6), CrossingName, Origin, <<"x">>, SubCell(SubIds(20, 2, None, << >>))) }

TooFewFieldsLines ==
    { << <<"Track">>, Dec(1) >>,
      SubSeq(TrackLine(Dec(1), Origin, <<"0">>, <<"1", "0">>, <<"0">>, << >>, << >>), 1, 21),
      SubSeq(BTrackLine(Dec(4), Origin, <<0, 0, 100>>, << >>, << >>), 1, 17),
      SubSeq(StructureLine(Dec(6), CrossingName, Origin, <<"0">>, SubCell(SubIds(20, 2, None, << >>))), 1, 18) }

UnknownStructureLines ==
    { StructureLine(Dec(6), <<"Rz 60E1-0-0_0">>, Origin, <<"0">>, SubCell(SubIds(20, 2, None, << >>))),
      StructureLine(Dec(6), << >>, Origin, <<"0">>, SubCell(SubIds(20, 2, None, << >>))) }

MalformedSubtrackLines ==
    { StructureLine(Dec(6), CrossingName, Origin, <<"0">>, <<"2", "0", ":", ":", ",", "2", "1", ":">>),
      StructureLine(Dec(6), CrossingName, Origin, <<"0">>, <<"2", "0", ":", ":", ",", ":", "1", ":">>),
      StructureLine(Dec(5), ForkName, Origin, <<"0">>,
                    SubCell(SubIds(10, 4, None, << >>)) \o <<",", "x", ":", ":">>) }

WrongCountLines ==
    { StructureLine(Dec(5), name, Origin, <<"0">>, SubCell(SubIds(10, c, Some(1), <<2>>))) :
        name \in {ForkName, ForkExtName}, c \in {0, 4, 6} }
    \cup { StructureLine(Dec(5), ForkName, Origin, <<"0">>, SubCell(SubIds(10, 7, None, << >>))),
           StructureLine(Dec(5), ForkExtName, Origin, <<"0">>, SubCell(SubIds(10, 5, None, << >>))),
           StructureLine(Dec(6), CrossingName, Origin, <<"0">>, SubCell(SubIds(20, 3, None, << >>))),
           StructureLine(Dec(7), SlipName, Origin, <<"0">>, SubCell(SubIds(30, 12, None, << >>))),
           StructureLine(Dec(8), DoubleSlipName, Origin, <<"0">>, SubCell(SubIds(30, 14, None, << >>))) }

FailingLines ==
    MalformedNumberLines \cup TooFewFieldsLines \cup UnknownStructureLines
    \cup MalformedSubtrackLines \cup WrongCountLines

\* A Track row whose third field is neither Track nor BTrack, and a plain
\* track row with radius 0 and a negative length.
FatalLines ==
    { << <<"Track">>, Dec(1), <<"Foo">> >>,
      TrackLine(Dec(1), Origin, <<"0">>, <<"-", "5">>, <<"0">>, << >>, << >>) }

SectionLines ==
    { << <<"Route">>, <<"r">> >>, << <<"EndRoute">> >>, << <<"TerrainGroup">> >>,
      << <<"EndTerrainGroup">> >> }

OtherLines == { << >>, << <<"Misc">>, <<"m">> >>, << <<"Foo">> >>, << << >>, <<"1">> >> }

\* The plain straight track of the end-to-end case: id 1, length 50, radius
\* 0, from the origin, heading along +Z or a quarter turn off, with no link,
\* with its own id as successor, or with links to ids 1 and 2.
FiftyLines ==
    { TrackLine(Dec(1), Origin, y_deg, <<"5", "0">>, <<"0">>, np[1], np[2]) :
        y_deg \in {<<"0">>, <<"9", "0">>},
        np \in {<< << >>, << >> >>, <<Dec(1), << >> >>, <<Dec(2), Dec(1)>>} }

GeoLines ==
    CheckedLines \cup NeighbourLines \cup OtherTrackLines \cup StructureOkLines
    \cup FailingLines \cup FatalLines \cup FiftyLines

Lines == GeoLines \cup SectionLines \cup OtherLines

IsGeoLine(line) == line # << >> /\ Cell(line, 0) \in {<<"Track">>, <<"TrackStructure">>}

\* ------------------------------------------------------------------------
\* Calls of the builders and of the plain row parser
\* ------------------------------------------------------------------------
\* A subtrack list has at most MaxSubtracks entries.
MaxSubtracks == 17

\* What the entries of a row's subtrack cell carry besides their own ids:
\* no hint, a predecessor each, a successor each, or both; or ids of other
\* entries of the same cell, the adjoining entries ("ring") or the entries
\* eight and nine places on ("far").
HintPatterns == {"none", "prev", "next", "both", "ring", "far"}

\* c subtrack entries with pairwise distinct own ids 101, 102, ...; the hinted
\* ids 201.. and 301.. are ids of no entry.
HintedIds(c, hints) ==
    [i \in 1..c |->
        [own |-> 100 + i,
         prev |-> CASE hints \in {"prev", "both"} -> Some(200 + i)
                    [] hints = "ring" -> Some(101 + (i % c))
                    [] hints = "far" -> Some(101 + ((i + 7) % c))
                    [] OTHER -> None,
         next |-> CASE hints \in {"next", "both"} -> <<300 + i>>
                    [] hints = "ring" -> <<101 + ((i + c - 2) % c)>>
                    [] hints = "far" -> <<101 + ((i + 8) % c)>>
                    [] OTHER -> << >>]]

\* The anchor poses: the origin unrotated, and a point off the axes heading
\* a quarter turn away.
StartPoses ==
    { Checkpoint_new(Origin, IDENTITY),
      Checkpoint_new(<<100, 5, -200>>, from_rotation_y(to_radians(900))) }

\* The slip switches of the catalog with their diagonals set otherwise: no
\* catalog entry has no diagonal, or the left one alone.
SlipVariants ==
    { [name |-> n, structure |-> [TRACK_STRUCTURES[n] EXCEPT !.left_slip = l, !.right_slip = r]] :
        n \in {SlipName[1]}, l \in BOOLEAN, r \in {FALSE} }

CatalogStructures == { [name |-> n, structure |-> TRACK_STRUCTURES[n]] : n \in DOMAIN TRACK_STRUCTURES }

StructureCalls ==
    { [kind |-> "structure", catalog |-> e \in CatalogStructures, start |-> s, name |-> <<e.name>>,
       structure |-> e.structure, subtracks |-> HintedIds(c, h)] :
        e \in CatalogStructures \cup SlipVariants, s \in StartPoses, c \in 0..MaxSubtracks,
        h \in HintPatterns }

\* The Track rows of the input lines.
RowCalls ==
    { [kind |-> "row", cells |-> l] : l \in { g \in GeoLines : Cell(g, 0) = <<"Track">> } }

\* The offsets straight_around_point is called with: those of the catalog's
\* crossing and slip switches, and both signs and orders of them.
Offsets == {-166, -105, -30, 0, 30, 105, 166}

\* Calls of TrackShape::straight_around_point.
AroundCalls ==
    { [kind |-> "around", point |-> p, start_offset |-> a, end_offset |-> b] :
        p \in StartPoses, a \in Offsets, b \in Offsets }

Calls == StructureCalls \cup RowCalls \cup AroundCalls

NoCall == << >>

\* ------------------------------------------------------------------------
\* The reader as a state machine
\* ------------------------------------------------------------------------
VARIABLES
    pc,                 \* "reading", "validating", "done", "panicked"
    state,              \* State: "Default", "Route", "TerrainGroup"
    tracks,             \* Vec<Track>
    track_indexes,      \* HashMap<i32, usize>
    failed_connections, \* Vec<FailedConnection>
    log,                \* what the last line read made the program print
    lines_read,         \* the number of lines read
    geo_read,           \* the number of Track and TrackStructure lines read
    call,               \* the arguments of a builder or row parser called alone
    built               \* what that call returned

vars == <<pc, state, tracks, track_indexes, failed_connections, log, lines_read, geo_read, call, built>>

Init ==
    /\ pc = "reading"
    /\ state = "Default"
    /\ tracks = << >>
    /\ track_indexes = << >>
    /\ failed_connections = << >>
    /\ log = << >>
    /\ lines_read = 0
    /\ geo_read = 0
    /\ call = NoCall
    /\ built = NoCall

\* One turn of for_each: the next line of the file is `line`.
ReadLine(line) ==
    /\ pc = "reading"
    /\ lines_read < MaxLines
    /\ IsGeoLine(line) => geo_read < MaxGeoRows
    /\ \E r \in {process_line(state, tracks, line)} :
        /\ state' = r.state
        /\ tracks' = r.tracks
        /\ log' = r.log
        /\ pc' = IF r.panic THEN "panicked" ELSE "reading"
    /\ lines_read' = lines_read + 1
    /\ geo_read' = IF IsGeoLine(line) THEN geo_read + 1 ELSE geo_read
    /\ UNCHANGED <<track_indexes, failed_connections, call, built>>

\* The input is exhausted: the loop filling track_indexes.
BuildIndex ==
    /\ pc = "reading"
    /\ track_indexes' = build_track_indexes(tracks)
    /\ pc' = "validating"
    /\ log' = << >>
    /\ UNCHANGED <<state, tracks, failed_connections, lines_read, geo_read, call, built>>

\* find_failed_connections, and Ok(ParseResult { .. }).
Validate ==
    /\ pc = "validating"
    /\ failed_connections' = find_failed_connections(tracks, track_indexes)
    /\ pc' = "done"
    /\ UNCHANGED <<state, tracks, track_indexes, log, lines_read, geo_read, call, built>>

Next ==
    \/ \E line \in Lines : ReadLine(line)
    \/ BuildIndex
    \/ Validate

Spec == Init /\ [][Next]_vars

\* ------------------------------------------------------------------------
\* One builder, or the plain row parser, called on its own
\* ------------------------------------------------------------------------
InitBuild ==
    /\ pc = "called"
    /\ state = "Default"
    /\ tracks = << >>
    /\ track_indexes = << >>
    /\ failed_connections = << >>
    /\ log = << >>
    /\ lines_read = 0
    /\ geo_read = 0
    /\ call \in Calls
    /\ built = NoCall

\* The match of parse_track_structure on the catalog entry.
BuildStructure ==
    /\ pc = "called"
    /\ call.kind = "structure"
    /\ built' = build_structure(call.start, call.structure, call.subtracks, call.name)
    /\ pc' = "returned"
    /\ UNCHANGED <<state, tracks, track_indexes, failed_connections, log, lines_read, geo_read, call>>

ParseTrack ==
    /\ pc = "called"
    /\ call.kind = "row"
    /\ built' = parse_track(call.cells)
    /\ pc' = "returned"
    /\ UNCHANGED <<state, tracks, track_indexes, failed_connections, log, lines_read, geo_read, call>>

StraightAroundPoint ==
    /\ pc = "called"
    /\ call.kind = "around"
    /\ built' = TrackShape_straight_around_point(call.point, call.start_offset, call.end_offset)
    /\ pc' = "returned"
    /\ UNCHANGED <<state, tracks, track_indexes, failed_connections, log, lines_read, geo_read, call>>

NextBuild == BuildStructure \/ ParseTrack \/ StraightAroundPoint

SpecBuild == InitBuild /\ [][NextBuild]_vars

\* ------------------------------------------------------------------------
\* Properties of the reader
\* ------------------------------------------------------------------------
\* C1: a Track or TrackStructure row that fails to parse in the Default
\* section (malformed number, too few fields, unknown structure name, malformed
\* subtrack entry, wrong subtrack count) adds no track at all, leaves the
\* collected tracks and the section state as they were, and the reader goes on
\* reading; what a later row does depends on state and tracks alone.
C1_FailedRowIsDropped ==
    [][\A line \in FailingLines :
          (state = "Default" /\ ReadLine(line)) =>
              /\ tracks' = tracks
              /\ state' = state
              /\ pc' = "reading"
              /\ log' # << >>
              /\ log'[1] \in {"Failed to parse track", "Failed to parse switch"}]_vars

\* A structure row has just failed after a first row had given a track.
C1_Witness ==
    /\ pc = "reading"
    /\ lines_read = 2
    /\ Len(tracks) = 1
    /\ log # << >>
    /\ log[1] = "Failed to parse switch"

\* C2: whatever the rows, the run is never cut short by a row, and a run in
\* which no row gave a track ends with an empty track list, an empty id index
\* and an empty list of failed connections.
C2_NoRowIsFatal ==
    /\ pc # "panicked"
    /\ (pc = "done" /\ tracks = << >>) => (track_indexes = << >> /\ failed_connections = << >>)

\* C3: a Route (TerrainGroup) row read in Default opens a section; every row
\* read inside the section adds no track and stops nothing, whatever it holds,
\* and the section ends at the first EndRoute (EndTerrainGroup) row and at no
\* other row.
C3_SectionsAreOpaque ==
    [][\A line \in Lines :
          /\ (state = "Default" /\ line # << >> /\ Cell(line, 0) = <<"Route">> /\ ReadLine(line))
                 => (state' = "Route" /\ tracks' = tracks)
          /\ (state = "Default" /\ line # << >> /\ Cell(line, 0) = <<"TerrainGroup">> /\ ReadLine(line))
                 => (state' = "TerrainGroup" /\ tracks' = tracks)
          /\ (state = "Route" /\ ReadLine(line))
                 => /\ tracks' = tracks
                    /\ pc' = "reading"
                    /\ state' = IF line # << >> /\ Cell(line, 0) = <<"EndRoute">>
                                THEN "Default" ELSE "Route"
          /\ (state = "TerrainGroup" /\ ReadLine(line))
                 => /\ tracks' = tracks
                    /\ pc' = "reading"
                    /\ state' = IF line # << >> /\ Cell(line, 0) = <<"EndTerrainGroup">>
                                THEN "Default" ELSE "TerrainGroup"]_vars

\* Track or TrackStructure rows were read inside a Route section, up to the
\* end of the file, and gave no track.
C3_Witness ==
    /\ pc = "reading"
    /\ state = "Route"
    /\ lines_read = MaxLines
    /\ geo_read = MaxGeoRows
    /\ tracks = << >>
    /\ log = << >>

\* ------------------------------------------------------------------------
\* Properties of the validator
\* ------------------------------------------------------------------------
\* The links track t declares: its predecessor, checked from its start, and
\* its successors, checked from its end.
LinksOf(t) ==
    (IF t.ids.prev # None
     THEN << [id |-> t.ids.prev[1], pos |-> TrackShape_start(t.shape).pos] >>
     ELSE << >>)
    \o [j \in 1..Len(t.ids.next) |-> [id |-> t.ids.next[j], pos |-> TrackShape_end(t.shape).pos]]

\* The squared horizontal distance of two positions.
HDist2(a, b) == (a[1] - b[1]) * (a[1] - b[1]) + (a[3] - b[3]) * (a[3] - b[3])

\* The track the index gives for a link, and the smaller of the squared
\* horizontal distances from the link's endpoint to its two endpoints.
Neighbour(link) == tracks[track_indexes[link.id] + 1]

MinDist2(link) ==
    LET ds == HDist2(TrackShape_start(Neighbour(link).shape).pos, link.pos)
        de == HDist2(TrackShape_end(Neighbour(link).shape).pos, link.pos)
    IN IF de < ds THEN de ELSE ds

\* 1.0 squared unit, and 10 units squared, in fixed point.
OneSquared == Scale * Scale

TenSquared == (10 * Scale) * (10 * Scale)

AllLinks == { <<i, j>> \in (1..Len(tracks)) \X (1..3) : j <= Len(LinksOf(tracks[i])) }

\* The failed connections reported for track t and link.
ReportsOf(t, link) ==
    { k \in 1..Len(failed_connections) :
        /\ failed_connections[k].track1 = t
        /\ failed_connections[k].pos1 = link.pos
        /\ failed_connections[k].track2.ids.own = link.id }

\* C5: the validator reports a link of track T to neighbour id N exactly when
\* N is in the id index and the smaller squared horizontal distance from T's
\* endpoint to the neighbour's two endpoints is strictly greater than 1.0;
\* it reports nothing else, and every link of every track is decided.
C5_ReportedExactlyWhenTooFar ==
    pc = "done" =>
        /\ \A ij \in AllLinks :
              LET link == LinksOf(tracks[ij[1]])[ij[2]] IN
              (link.id \in DOMAIN track_indexes /\ MinDist2(link) > OneSquared)
                  <=> ReportsOf(tracks[ij[1]], link) # {}
        /\ Len(failed_connections)
             = Cardinality({ ij \in AllLinks :
                               LET link == LinksOf(tracks[ij[1]])[ij[2]] IN
                               link.id \in DOMAIN track_indexes /\ MinDist2(link) > OneSquared })
        /\ \A k \in 1..Len(failed_connections) :
              failed_connections[k].track2 = tracks[track_indexes[failed_connections[k].track2.ids.own] + 1]

\* Nothing is reported for a file in which one link is exactly 1.0 from its
\* neighbour and another names an id that is not in the index.
C5_Witness ==
    /\ pc = "done"
    /\ failed_connections = << >>
    /\ \E ij \in AllLinks : LinksOf(tracks[ij[1]])[ij[2]].id \notin DOMAIN track_indexes
    /\ \E ij \in AllLinks :
          LET link == LinksOf(tracks[ij[1]])[ij[2]] IN
          link.id \in DOMAIN track_indexes /\ MinDist2(link) = OneSquared

\* C6: a link whose endpoint lies 10 units from the nearer endpoint of the
\* neighbour is reported exactly once (once for each track of the list that
\* declares that very link), with the checked endpoint as first position and
\* an endpoint of the neighbour at the smaller distance as second position; a
\* link within 1.0 squared unit is not reported.
C6_TenUnitsApartReportedOnce ==
    pc = "done" =>
        \A ij \in AllLinks :
            LET t == tracks[ij[1]]
                link == LinksOf(t)[ij[2]]
            IN link.id \in DOMAIN track_indexes =>
                /\ MinDist2(link) = TenSquared =>
                      /\ Cardinality(ReportsOf(t, link))
                           = Cardinality({ xy \in AllLinks : tracks[xy[1]] = t /\ LinksOf(t)[xy[2]] = link })
                      /\ \A k \in ReportsOf(t, link) :
                            /\ failed_connections[k].pos1 = link.pos
                            /\ failed_connections[k].pos2
                                 \in { TrackShape_start(Neighbour(link).shape).pos,
                                       TrackShape_end(Neighbour(link).shape).pos }
                            /\ HDist2(failed_connections[k].pos2, link.pos) = MinDist2(link)
                /\ MinDist2(link) <= OneSquared => ReportsOf(t, link) = {}

\* Track 1 ends 10 units short of the end of its successor, whose start is
\* farther away: the report names the successor's end.
C6_Witness ==
    /\ pc = "done"
    /\ Len(failed_connections) >= 1
    /\ HDist2(failed_connections[1].pos1, failed_connections[1].pos2) = TenSquared
    /\ failed_connections[1].pos2 = TrackShape_end(failed_connections[1].track2.shape).pos
    /\ failed_connections[1].pos2 # TrackShape_start(failed_connections[1].track2.shape).pos

\* The shape moved up by dy: every position it stores, elevation only.
Lift(shape, dy) ==
    CASE shape.kind = "Straight" ->
           [shape EXCEPT !.start.pos[2] = @ + dy, !.end_pos[2] = @ + dy]
      [] shape.kind = "Arc" ->
           [shape EXCEPT !.start_pos[2] = @ + dy, !.end.pos[2] = @ + dy]
      [] shape.kind = "Bezier" ->
           [shape EXCEPT !.start_pos[2] = @ + dy, !.control1[2] = @ + dy,
                         !.control2[2] = @ + dy, !.end_pos[2] = @ + dy]
      [] shape.kind = "Point" -> [shape EXCEPT !.point.pos[2] = @ + dy]

\* The track list with track i moved up by 37 units times i: the same list
\* but for the elevations, no two tracks staying at their distance in height.
Lifted(tracks_) == [i \in 1..Len(tracks_) |-> [tracks_[i] EXCEPT !.shape = Lift(@, 37 * i * Scale)]]

\* What a list of failed connections says, elevation left out: the two
\* tracks of each link and the horizontal positions of the two endpoints.
Verdict(fcs) ==
    [k \in 1..Len(fcs) |->
        [track1 |-> fcs[k].track1.ids, track2 |-> fcs[k].track2.ids,
         pos1 |-> <<fcs[k].pos1[1], fcs[k].pos1[3]>>, pos2 |-> <<fcs[k].pos2[1], fcs[k].pos2[3]>>,
         at_end |-> fcs[k].pos2 = TrackShape_end(fcs[k].track2.shape).pos]]

\* C7: for two track lists that differ in the elevations of their endpoints
\* only, the validator reports the same links and takes the same endpoint of
\* the neighbour for the nearer one.
C7_ElevationIsIgnored ==
    pc = "done" =>
        Verdict(find_failed_connections(Lifted(tracks), track_indexes)) = Verdict(failed_connections)

\* Two linked tracks meet in the plan 5 units apart in height and nothing is
\* reported.
C7_Witness ==
    /\ pc = "done"
    /\ failed_connections = << >>
    /\ \E ij \in AllLinks :
          LET link == LinksOf(tracks[ij[1]])[ij[2]] IN
          /\ link.id \in DOMAIN track_indexes
          /\ MinDist2(link) = 0
          /\ TrackShape_start(Neighbour(link).shape).pos[2] - link.pos[2] = -5 * Scale

\* ------------------------------------------------------------------------
\* Properties of the builders
\* ------------------------------------------------------------------------
ForkCall == pc = "returned" /\ call.kind = "structure" /\ call.structure.type = "Fork"

ForkBuilt == ForkCall /\ IsOk(built)

\* The subtrack count a catalog structure asks for.
RequiredCount(structure) ==
    CASE structure.type = "Fork" -> IF structure.added_length > 0 THEN 7 ELSE 5
      [] structure.type = "Crossing" -> 2
      [] structure.type = "Slip" ->
           12 + (IF structure.left_slip THEN 2 ELSE 0) + (IF structure.right_slip THEN 2 ELSE 0)

\* C4: no builder ever asks add_next for a third successor: on every catalog
\* structure and every subtrack list no call ends in add_next's panic, a list
\* of the required length is built, in a slip switch with both diagonals each
\* of the four outer tracks ends with its transition track and one diagonal
\* curve as successors, and a track read from a plain Track or BTrack row has
\* at most one successor.
C4_NoThirdSuccessor ==
    pc = "returned" =>
        /\ call.kind = "structure" =>
              /\ ~(built.tag = "Panic"
                   /\ built.msg = "add_next called on TracksIds with two next ids already set")
              /\ (call.catalog /\ Len(call.subtracks) = RequiredCount(call.structure)) => IsOk(built)
              /\ IsOk(built) => \A i \in 1..Len(built.val) : Len(built.val[i].ids.next) <= 2
              /\ (IsOk(built) /\ call.structure.type = "Slip"
                  /\ call.structure.left_slip /\ call.structure.right_slip) =>
                    /\ Cardinality({ i \in 1..Len(built.val) : built.val[i].end_for_structure # None }) = 4
                    /\ \A i \in 1..Len(built.val) :
                          built.val[i].end_for_structure # None =>
                              /\ Len(built.val[i].ids.next) = 2
                              /\ \E j, k \in 1..Len(built.val) :
                                    /\ built.val[j].shape.kind = "Straight"
                                    /\ built.val[k].shape.kind = "Arc"
                                    /\ built.val[i].ids.next = <<built.val[j].ids.own, built.val[k].ids.own>>
        /\ (call.kind = "row" /\ IsOk(built)) => Len(built.val.ids.next) <= 1

\* A slip switch with both diagonals was built from 16 entries that each
\* carried a successor hint.
C4_Witness ==
    /\ pc = "returned"
    /\ call.kind = "structure"
    /\ call.structure.type = "Slip"
    /\ call.structure.left_slip /\ call.structure.right_slip
    /\ call.subtracks # << >>
    /\ call.subtracks[1].next # << >>
    /\ IsOk(built)
    /\ Len(built.val) = 16

\* A track list standing for the tracks collected before a row is read.
CollectedBefore == << Track_new([own |-> 1, prev |-> None, next |-> << >>], TrackShape_point(Checkpoint_new(Origin, IDENTITY))) >>

\* C8: build_fork_switch succeeds exactly on 5 entries for a fork without
\* added length and on 7 entries for a fork with added length > 0, and then
\* returns 5, respectively 7, tracks; on every other count it returns an
\* error, on which the reader prints, keeps its tracks and reads on.
C8_ForkCounts ==
    ForkCall =>
        /\ IsOk(built) <=> \/ (Len(call.subtracks) = 5 /\ ~(call.structure.added_length > 0))
                           \/ (Len(call.subtracks) = 7 /\ call.structure.added_length > 0)
        /\ IsOk(built) => Len(built.val) = IF call.structure.added_length > 0 THEN 7 ELSE 5
        /\ ~IsOk(built) =>
              /\ built.tag = "Err"
              /\ on_track_structure("Default", CollectedBefore, built).tracks = CollectedBefore
              /\ on_track_structure("Default", CollectedBefore, built).state = "Default"
              /\ ~on_track_structure("Default", CollectedBefore, built).panic

\* A fork with added length was built from 7 entries.
C8_Witness ==
    /\ ForkBuilt
    /\ call.structure.added_length > 0
    /\ Len(call.subtracks) = 7
    /\ Len(built.val) = 7

\* The tracks of the built structure whose own id is id.
BuiltWithId(id) == { i \in 1..Len(built.val) : built.val[i].ids.own = id }

\* The track reached from track i by its single successor id.
Hop(i) == CHOOSE j \in BuiltWithId(built.val[i].ids.next[1]) : TRUE

\* A track with one successor id, which is the own id of one built track.
HasHop(i) == Len(built.val[i].ids.next) = 1 /\ Cardinality(BuiltWithId(built.val[i].ids.next[1])) = 1

IsTerminal(i) ==
    /\ built.val[i].shape.kind = "Point"
    /\ built.val[i].end_for_structure = Some(call.name)

\* Branch from curve track c: the last track before the terminal and the
\* terminal, one hop on without extension and two hops on with it.
BranchEndsWell(c) ==
    /\ HasHop(c)
    /\ IF call.structure.added_length > 0
       THEN /\ built.val[Hop(c)].shape.kind = "Straight"
            /\ built.val[Hop(c)].end_for_structure = None
            /\ built.val[Hop(c)].ids.prev = Some(built.val[c].ids.own)
            /\ HasHop(Hop(c))
            /\ IsTerminal(Hop(Hop(c)))
            /\ built.val[Hop(Hop(c))].ids.prev = Some(built.val[Hop(c)].ids.own)
       ELSE /\ IsTerminal(Hop(c))
            /\ built.val[Hop(c)].ids.prev = Some(built.val[c].ids.own)

Terminal(c) == IF call.structure.added_length > 0 THEN Hop(Hop(c)) ELSE Hop(c)

\* C9: in a built fork the successor chain of each of the two curve tracks
\* (the second and third track) reaches after one hop, or two with an
\* extension, a Point track tagged with the structure name; the two
\* terminals are distinct and the only tagged tracks, and the predecessor of
\* each is the last curve or extension track of its branch, whose successor
\* it is.
C9_ForkBranchesEndAtTerminals ==
    ForkBuilt =>
        /\ BranchEndsWell(2)
        /\ BranchEndsWell(3)
        /\ Terminal(2) # Terminal(3)
        /\ { i \in 1..Len(built.val) : built.val[i].end_for_structure # None } = {Terminal(2), Terminal(3)}

\* A fork without extension was built: its fourth track is a tagged
\* terminal whose own successor hint is kept.
C9_Witness ==
    /\ ForkBuilt
    /\ Len(built.val) = 5
    /\ built.val[4].end_for_structure = Some(call.name)
    /\ built.val[4].shape.kind = "Point"
    /\ built.val[4].ids.next # << >>

\* C10: the first track of a built fork is a Point at the anchor pose that
\* carries the own id of entry 0 and has exactly two successors, the own ids
\* of entries 1 and 2 in that order, whatever successor the row named for
\* the anchor; the two curve tracks carry the own ids of entries 1 and 2 and
\* have the anchor's own id as predecessor.
C10_ForkAnchor ==
    ForkBuilt =>
        /\ built.val[1].shape = [kind |-> "Point", point |-> call.start]
        /\ built.val[1].ids.own = call.subtracks[1].own
        /\ built.val[1].ids.next = <<call.subtracks[2].own, call.subtracks[3].own>>
        /\ built.val[2].ids.own = call.subtracks[2].own
        /\ built.val[3].ids.own = call.subtracks[3].own
        /\ built.val[2].ids.prev = Some(built.val[1].ids.own)
        /\ built.val[3].ids.prev = Some(built.val[1].ids.own)

\* A fork was built from entries with successor and predecessor hints, off
\* the origin: the anchor's hint is gone.
C10_Witness ==
    /\ ForkBuilt
    /\ call.start.pos # Origin
    /\ call.subtracks[1].next = <<301>>
    /\ call.subtracks[2].prev = Some(202)
    /\ built.val[1].ids.next # call.subtracks[1].next

\* ------------------------------------------------------------------------
\* Properties of build_crossing
\* ------------------------------------------------------------------------
CrossingCall == pc = "returned" /\ call.kind = "structure" /\ call.structure.type = "Crossing"

CrossingBuilt == CrossingCall /\ IsOk(built)

\* The ids a TrackIds names as predecessor or successor.
Named(ids) == { ids.prev[k] : k \in 1..Len(ids.prev) } \cup { ids.next[k] : k \in 1..Len(ids.next) }

\* C11: build_crossing succeeds exactly when the subtrack list has 2
\* entries; it then returns exactly 2 tracks, both Straight, both tagged with
\* the structure name, with the own ids of entries 0 and 1 in that order; on
\* every other count it returns an error, on which the reader prints, keeps
\* its tracks and reads on.
C11_CrossingCounts ==
    CrossingCall =>
        /\ IsOk(built) <=> Len(call.subtracks) = 2
        /\ IsOk(built) =>
              /\ Len(built.val) = 2
              /\ \A i \in 1..2 :
                    /\ built.val[i].shape.kind = "Straight"
                    /\ built.val[i].end_for_structure = Some(call.name)
                    /\ built.val[i].ids.own = call.subtracks[i].own
        /\ ~IsOk(built) =>
              /\ built.tag = "Err"
              /\ on_track_structure("Default", CollectedBefore, built).tracks = CollectedBefore
              /\ on_track_structure("Default", CollectedBefore, built).state = "Default"
              /\ ~on_track_structure("Default", CollectedBefore, built).panic

\* A crossing was built off the origin from 2 entries, and the two chords
\* differ.
C11_Witness ==
    /\ CrossingBuilt
    /\ call.start.pos # Origin
    /\ Len(built.val) = 2
    /\ built.val[1].ids.own = 101
    /\ built.val[2].ids.own = 102
    /\ built.val[1].shape.end_pos # built.val[2].shape.end_pos

\* C12: whatever predecessor and successor the two subtrack entries of a
\* crossing row name, neither of the two tracks built names the own id of
\* the other as its predecessor or as a successor.
C12_CrossingTracksUnlinked ==
    CrossingBuilt =>
        /\ built.val[2].ids.own \notin Named(built.val[1].ids)
        /\ built.val[1].ids.own \notin Named(built.val[2].ids)

\* ------------------------------------------------------------------------
\* Properties of build_slip_switch
\* ------------------------------------------------------------------------
SlipCall == pc = "returned" /\ call.kind = "structure" /\ call.structure.type = "Slip"

SlipBuilt == SlipCall /\ IsOk(built)

\* C13: build_slip_switch succeeds exactly when the subtrack list has 12
\* entries plus 2 for each enabled diagonal; on every other count, shorter
\* lists included, it returns the count error and does not panic on an index,
\* and the reader prints, keeps its tracks and reads on.
C13_SlipCounts ==
    SlipCall =>
        /\ IsOk(built) <=> Len(call.subtracks) = RequiredCount(call.structure)
        /\ ~IsOk(built) =>
              /\ built.tag = "Err"
              /\ built.msg = "This slip switch must exactly at least N subtracks"
              /\ on_track_structure("Default", CollectedBefore, built).tracks = CollectedBefore
              /\ on_track_structure("Default", CollectedBefore, built).state = "Default"
              /\ ~on_track_structure("Default", CollectedBefore, built).panic

\* A slip switch with the right diagonal alone, which asks for 14 entries, is
\* given 13 and returns the error: remove(13) is never reached.
C13_Witness ==
    /\ SlipCall
    /\ call.structure.right_slip /\ ~call.structure.left_slip
    /\ Len(call.subtracks) = 13
    /\ built.tag = "Err"

\* The returned vector holds the tracks of the left diagonal, those of the
\* right diagonal (3 curves for an enabled diagonal, 1 placeholder for a
\* disabled one), then the 5 tracks of the first and of the second through
\* path. The tracks of the left diagonal start at index 1, those of the right
\* diagonal after RightBase tracks, the paths after PathBase tracks.
RightBase == IF call.structure.left_slip THEN 3 ELSE 1

PathBase == RightBase + (IF call.structure.right_slip THEN 3 ELSE 1)

FirstPath(k) == built.val[PathBase + k]

SecondPath(k) == built.val[PathBase + 5 + k]

\* The subtrack entries left for the through paths and the centres.
Remaining == remaining_subtracks(call.structure, call.subtracks)

\* C14: in a slip switch built with both diagonals disabled the own id of
\* neither centre placeholder (the first two tracks returned) is the
\* predecessor or a successor of any other track returned.
C14_CentersUnreferenced ==
    (SlipBuilt /\ ~call.structure.left_slip /\ ~call.structure.right_slip) =>
        \A c \in 1..2 : \A i \in 1..Len(built.val) :
            i # c => built.val[c].ids.own \notin Named(built.val[i].ids)

\* The three curves from index base + 1 on run from enter_outer to
\* exit_outer: they carry the own ids of the entries taken out for the
\* diagonal and of the centre entry, each names its neighbours in the chain,
\* and the two outer tracks name the adjoining curve among their successors.
DiagonalChain(base, slip_ids, center_index, enter_outer, exit_outer) ==
    LET enter == built.val[base + 1]
        center == built.val[base + 2]
        exit == built.val[base + 3]
    IN  /\ enter.ids.own = slip_ids[1][1].own
        /\ center.ids.own = At(Remaining, center_index).own
        /\ exit.ids.own = slip_ids[1][2].own
        /\ \A t \in {enter, center, exit} : t.shape.kind = "Arc" /\ t.end_for_structure = None
        /\ enter.ids.prev = Some(enter_outer.ids.own)
        /\ enter.ids.next = <<center.ids.own>>
        /\ center.ids.prev = Some(enter.ids.own)
        /\ center.ids.next = <<exit.ids.own>>
        /\ exit.ids.prev = Some(center.ids.own)
        /\ exit.ids.next = <<exit_outer.ids.own>>
        /\ \E k \in 1..Len(enter_outer.ids.next) : enter_outer.ids.next[k] = enter.ids.own
        /\ \E k \in 1..Len(exit_outer.ids.next) : exit_outer.ids.next[k] = exit.ids.own

\* The outer tracks of the two through paths are the tagged tracks with the
\* own ids of entries 0, 2, 1 and 3.
OuterTracksInPlace ==
    /\ FirstPath(1).ids.own = At(Remaining, 0).own
    /\ FirstPath(5).ids.own = At(Remaining, 2).own
    /\ SecondPath(1).ids.own = At(Remaining, 1).own
    /\ SecondPath(5).ids.own = At(Remaining, 3).own
    /\ \A t \in {FirstPath(1), FirstPath(5), SecondPath(1), SecondPath(5)} :
          t.end_for_structure = Some(call.name)

\* C15: each enabled diagonal of a built slip switch is an unbroken id
\* chain: the left one from the enter outer track of the first through path
\* to the exit outer track of the second, the right one from the enter outer
\* track of the second path to the exit outer track of the first.
C15_DiagonalIsChain ==
    SlipBuilt =>
        /\ OuterTracksInPlace
        /\ call.structure.left_slip =>
              DiagonalChain(0, left_slip_ids(call.structure, call.subtracks), 8,
                            FirstPath(1), SecondPath(5))
        /\ call.structure.right_slip =>
              DiagonalChain(RightBase, right_slip_ids(call.structure, call.subtracks), 9,
                            SecondPath(1), FirstPath(5))

\* A slip switch with both diagonals was built from entries that name one
\* another: the hints are gone from the left enter curve.
C15_Witness ==
    /\ SlipBuilt
    /\ call.structure.left_slip /\ call.structure.right_slip
    /\ call.subtracks[7].prev = Some(108)
    /\ built.val[1].ids.own = 107
    /\ built.val[1].ids.prev = Some(101)
    /\ built.val[6].ids.next = <<103>>

\* The track at index base + 1 is a Straight placeholder with the own id of
\* the centre entry and names no predecessor and no successor.
Placeholder(base, center_index) ==
    /\ built.val[base + 1].shape.kind = "Straight"
    /\ built.val[base + 1].ids.own = At(Remaining, center_index).own
    /\ built.val[base + 1].ids.prev = None
    /\ built.val[base + 1].ids.next = << >>

\* C16: for each disabled diagonal a built slip switch holds one Straight
\* track with the own id of the centre entry, and that track has no
\* predecessor and no successor whatever the entry named.
C16_PlaceholderUnlinked ==
    SlipBuilt =>
        /\ ~call.structure.left_slip => Placeholder(0, 8)
        /\ ~call.structure.right_slip => Placeholder(RightBase, 9)

\* The successors of the outer tracks of a diagonal that runs from
\* enter_outer to exit_outer; enter_transition and exit_transition are the
\* transition tracks next to them in their through paths.
OuterSuccessors(enabled, base, enter_outer, enter_transition, exit_outer, exit_transition, replaced) ==
    IF enabled
    THEN /\ enter_outer.ids.next =
               IF replaced THEN <<built.val[base + 1].ids.own>>
               ELSE <<enter_transition.ids.own, built.val[base + 1].ids.own>>
         /\ exit_outer.ids.next =
               IF replaced THEN <<built.val[base + 3].ids.own>>
               ELSE <<exit_transition.ids.own, built.val[base + 3].ids.own>>
    ELSE /\ enter_outer.ids.next = <<enter_transition.ids.own>>
         /\ exit_outer.ids.next = <<exit_transition.ids.own>>

\* C17 as stated: the outer track at which an enabled diagonal starts names
\* the enter curve as its successor in place of its transition track, the
\* outer track at which it ends names the exit curve in place of its
\* transition track, and with the diagonal disabled both keep the transition
\* track as their only successor.
C17_CurveReplacesTransition ==
    SlipBuilt =>
        /\ OuterSuccessors(call.structure.left_slip, 0, FirstPath(1), FirstPath(2),
                           SecondPath(5), SecondPath(4), TRUE)
        /\ OuterSuccessors(call.structure.right_slip, RightBase, SecondPath(1), SecondPath(2),
                           FirstPath(5), FirstPath(4), TRUE)

\* C17 amended: the outer tracks of an enabled diagonal name two successors,
\* the transition track of their through path first and the adjoining curve
\* of the diagonal second; with the diagonal disabled both keep the
\* transition track as their only successor.
C17_CurveJoinsTransition ==
    SlipBuilt =>
        /\ OuterSuccessors(call.structure.left_slip, 0, FirstPath(1), FirstPath(2),
                           SecondPath(5), SecondPath(4), FALSE)
        /\ OuterSuccessors(call.structure.right_slip, RightBase, SecondPath(1), SecondPath(2),
                           FirstPath(5), FirstPath(4), FALSE)

\* A slip switch with the right diagonal alone was built: the enter outer
\* track of the second path has two successors, that of the first path one.
C17_Witness ==
    /\ SlipBuilt
    /\ ~call.structure.left_slip /\ call.structure.right_slip
    /\ Len(SecondPath(1).ids.next) = 2
    /\ Len(FirstPath(1).ids.next) = 1
    /\ call.subtracks[1].next # << >>

\* ------------------------------------------------------------------------
\* Properties of the Straight shapes
\* ------------------------------------------------------------------------
\* The shapes a returned call holds: those of a structure's tracks, that of a
\* row's track, or the shape straight_around_point returned.
ShapesBuilt ==
    IF ~(pc = "returned" /\ IsOk(built)) THEN {}
    ELSE CASE call.kind = "structure" -> { built.val[i].shape : i \in 1..Len(built.val) }
           [] call.kind = "row" -> { built.val.shape }
           [] call.kind = "around" -> { built.val }

\* The stored length is non-negative and leads from the start to the end
\* along the forward axis of the start pose.
StraightWellFormed(shape) ==
    /\ shape.length >= 0
    /\ shape.end_pos = VAdd(shape.start.pos, MulZ(shape.start.rotation, shape.length))

AroundCall == pc = "returned" /\ call.kind = "around"

\* C18: every Straight shape built, by straight, by straight_around_point
\* and by straight_between, stores a non-negative length with end = start
\* position + start rotation applied to the length along the forward axis;
\* straight_around_point(p, a, b) stores the length b - a.
C18_StraightIsWellFormed ==
    /\ \A shape \in ShapesBuilt : shape.kind = "Straight" => StraightWellFormed(shape)
    /\ (AroundCall /\ IsOk(built)) => built.val.length = call.end_offset - call.start_offset

\* C19: straight_around_point with end_offset < start_offset returns an
\* error, on which the reader drops the row and reads on; with end_offset >=
\* start_offset it returns a Straight from the point at start_offset to the
\* point at end_offset on the forward axis of the pose.
C19_InvertedOffsetsAreAnError ==
    AroundCall =>
        IF call.end_offset < call.start_offset
        THEN /\ built.tag = "Err"
             /\ on_track_structure("Default", CollectedBefore, built).tracks = CollectedBefore
             /\ ~on_track_structure("Default", CollectedBefore, built).panic
        ELSE /\ IsOk(built)
             /\ built.val.kind = "Straight"
             /\ built.val.start = [pos |-> VAdd(call.point.pos, MulZ(call.point.rotation, call.start_offset)),
                                   rotation |-> call.point.rotation]
             /\ built.val.end_pos = VAdd(call.point.pos, MulZ(call.point.rotation, call.end_offset))

\* ------------------------------------------------------------------------
\* Properties of the id index
\* ------------------------------------------------------------------------
OwnIds == { tracks[i].ids.own : i \in 1..Len(tracks) }

\* The last track of the list with own id id, counting from 1.
LastWith(id) ==
    CHOOSE i \in 1..Len(tracks) :
        tracks[i].ids.own = id /\ \A j \in (i + 1)..Len(tracks) : tracks[j].ids.own # id

\* The smaller squared horizontal distance from a link's endpoint to the two
\* endpoints of the last track with the linked id.
MinDist2ToLast(link) ==
    LET other == tracks[LastWith(link.id)]
        ds == HDist2(TrackShape_start(other.shape).pos, link.pos)
        de == HDist2(TrackShape_end(other.shape).pos, link.pos)
    IN IF de < ds THEN de ELSE ds

IndexIsLastWriteWins ==
    pc \in {"validating", "done"} =>
        /\ DOMAIN track_indexes = OwnIds
        /\ \A k \in DOMAIN track_indexes :
              /\ track_indexes[k] < Len(tracks)
              /\ tracks[track_indexes[k] + 1].ids.own = k
              /\ track_indexes[k] + 1 = LastWith(k)
        /\ pc = "done" =>
              /\ \A ij \in AllLinks :
                    LET link == LinksOf(tracks[ij[1]])[ij[2]] IN
                    (link.id \in OwnIds /\ MinDist2ToLast(link) > OneSquared)
                        <=> ReportsOf(tracks[ij[1]], link) # {}
              /\ \A k \in 1..Len(failed_connections) :
                    failed_connections[k].track2 = tracks[LastWith(failed_connections[k].track2.ids.own)]

\* C20: tracks with the same own id do not fail the parse: building the
\* index and validating leave the track list as it was read; the index has
\* one entry for every own id, which is the position of the last track with
\* that id and lies within the list; and the validator measures every link
\* to an id against the last track with that id.
C20_LastWriteWins ==
    /\ []IndexIsLastWriteWins
    /\ [][(pc \in {"reading", "validating"} /\ pc' \in {"validating", "done"})
            => (tracks' = tracks /\ pc' # pc)]_vars

\* Two different tracks with id 1 were read; the first names id 1 as its
\* successor and is reported against the second.
C20_Witness ==
    /\ pc = "done"
    /\ Len(tracks) = 2
    /\ tracks[1].ids.own = 1 /\ tracks[2].ids.own = 1
    /\ tracks[1].ids.next = <<1>>
    /\ track_indexes = (1 :> 1)
    /\ Len(failed_connections) = 1
    /\ failed_connections[1].track1 = tracks[1]
    /\ failed_connections[1].track2 = tracks[2]
    /\ tracks[1] # tracks[2]

\* ------------------------------------------------------------------------
\* Properties of the order of the passes
\* ------------------------------------------------------------------------
\* seq is what list starts with.
IsPrefix(seq, list) == Len(seq) <= Len(list) /\ SubSeq(list, 1, Len(seq)) = seq

\* The tracks each Track or TrackStructure row gives a reader in Default
\* state that has collected nothing yet.
RowTracks == [line \in GeoLines |-> process_line("Default", << >>, line).tracks]

\* The flat list keeps row order: reading a row in Default state appends the
\* tracks of one row as that row gives them, contiguous and in builder order.
RowOrderIsKept ==
    (pc = "reading" /\ pc' = "reading" /\ state = "Default" /\ geo_read' # geo_read)
        => \E line \in GeoLines : tracks' = tracks \o RowTracks[line]

\* The link is decided against the track the complete index gives for it.
DecidedLikeAnyLink(i, link) ==
    (link.id \in OwnIds /\ MinDist2ToLast(link) > OneSquared) <=> ReportsOf(tracks[i], link) # {}

\* C21: the validator does no lookup before the index holds every track of
\* the complete list, the list keeps row order, with a structure row's tracks
\* contiguous and in builder order, and a link to a track of a later row is
\* resolved and checked exactly like a link to a track of an earlier row.
C21_IndexBeforeLookups ==
    /\ [](pc \in {"reading", "validating"} => failed_connections = << >>)
    /\ [](pc = "validating" => DOMAIN track_indexes = OwnIds)
    /\ [][IsPrefix(tracks, tracks') /\ RowOrderIsKept]_vars
    /\ [](pc = "done" =>
            \A ij \in AllLinks : DecidedLikeAnyLink(ij[1], LinksOf(tracks[ij[1]])[ij[2]]))

\* The first track of the file names a track of a later row as its
\* successor, 10 units away, and is reported against it.
C21_Witness ==
    /\ pc = "done"
    /\ Len(tracks) = 2
    /\ tracks[1].ids.next = <<tracks[2].ids.own>>
    /\ tracks[1].ids.own # tracks[2].ids.own
    /\ Len(failed_connections) >= 1
    /\ failed_connections[1].track1 = tracks[1]
    /\ failed_connections[1].track2 = tracks[2]

\* ------------------------------------------------------------------------
\* End to end: one plain straight track
\* ------------------------------------------------------------------------
\* A track with own id 1 whose shape is a Straight of length 50.
IsFiftyTrack(t) == t.ids.own = 1 /\ t.shape.kind = "Straight" /\ t.shape.length = 50 * Scale

\* Read as the first Track or TrackStructure row of a file by a reader in
\* Default state, the row gives exactly that track.
FiftyRowGivesTheTrack ==
    (pc = "reading" /\ state = "Default" /\ geo_read = 0 /\ tracks = << >>
     /\ \E line \in FiftyLines : ReadLine(line))
        => (pc' = "reading" /\ Len(tracks') = 1 /\ IsFiftyTrack(tracks'[1]) /\ log' = << >>)

\* The result of a file whose only Track or TrackStructure row was that one.
FiftyResult ==
    (geo_read = 1 /\ tracks # << >> /\ tracks[1].shape.kind = "Straight"
     /\ tracks[1].shape.length = 50 * Scale) =>
        /\ Len(tracks) = 1
        /\ IsFiftyTrack(tracks[1])
        /\ pc \in {"reading", "validating", "done"}
        /\ pc \in {"validating", "done"} => track_indexes = (1 :> 0)
        /\ failed_connections = << >>

\* C22: a file whose only Track or TrackStructure row is one well-formed
\* plain track row with id 1, length 50 and radius 0 yields exactly one
\* track, with own id 1 and a Straight shape of length 50, the id index
\* 1 -> 0 and no failed connection.
C22_OneStraightTrack == [][FiftyRowGivesTheTrack]_vars /\ []FiftyResult

\* The parse of such a file is done; the row named ids 2 and 1 as successor
\* and predecessor.
C22_Witness ==
    /\ pc = "done"
    /\ geo_read = 1
    /\ tracks # << >>
    /\ IsFiftyTrack(tracks[1])
    /\ tracks[1].ids.next = <<2>>
    /\ tracks[1].ids.prev = Some(1)
    /\ track_indexes = (1 :> 0)

\* ------------------------------------------------------------------------
\* One track per subtrack entry
\* ------------------------------------------------------------------------
StructureBuilt == pc = "returned" /\ call.kind = "structure" /\ IsOk(built)

\* C23: a builder that succeeds returns exactly one track per subtrack entry
\* it was given, 5 or 7 for a fork, 2 for a crossing, 12, 14 or 16 for a slip
\* switch, and each own id of the entries is the own id of exactly one track
\* returned.
C23_OneTrackPerEntry ==
    StructureBuilt =>
        /\ Len(built.val) = Len(call.subtracks)
        /\ Len(built.val) = RequiredCount(call.structure)
        /\ \A i \in 1..Len(call.subtracks) : Cardinality(BuiltWithId(call.subtracks[i].own)) = 1
        /\ \A j \in 1..Len(built.val) :
              \E i \in 1..Len(call.subtracks) : built.val[j].ids.own = call.subtracks[i].own

\* A slip switch with the left diagonal alone was built from 14 entries.
C23_Witness ==
    /\ StructureBuilt
    /\ call.structure.type = "Slip"
    /\ call.structure.left_slip /\ ~call.structure.right_slip
    /\ Len(built.val) = 14
    /\ { built.val[j].ids.own : j \in 1..14 } = 101..114

\* ------------------------------------------------------------------------
\* Links inside one structure
\* ------------------------------------------------------------------------
\* No entry of the subtrack list names the own id of an entry of the list.
HintsAreForeign ==
    \A i, j \in 1..Len(call.subtracks) : call.subtracks[j].own \notin Named(call.subtracks[i])

\* Whenever a track returned names another track returned, that one names it.
Reciprocated ==
    \A i, j \in 1..Len(built.val) :
        built.val[j].ids.own \in Named(built.val[i].ids) => built.val[i].ids.own \in Named(built.val[j].ids)

\* A through path whose second half runs towards the centre: its five tracks
\* start after base tracks of the vector.
PathIsMirrored(base) ==
    /\ built.val[base + 3].ids.next = <<built.val[base + 4].ids.own>>
    /\ built.val[base + 4].ids.next = <<built.val[base + 3].ids.own>>
    /\ built.val[base + 4].ids.prev = Some(built.val[base + 5].ids.own)

\* C24: when the entries' hints name no own id of the same list, every link
\* between two tracks of a built fork or slip switch is named from both
\* sides; in each through path of a slip switch the crossing-centre track's
\* successor is the exit transition track, whose successor is the
\* crossing-centre track and whose predecessor is the exit outer track.
C24_LinksReciprocated ==
    /\ (ForkBuilt \/ SlipBuilt) /\ HintsAreForeign => Reciprocated
    /\ SlipBuilt => PathIsMirrored(PathBase) /\ PathIsMirrored(PathBase + 5)

\* A slip switch with both diagonals was built from entries that each carry
\* a predecessor and a successor of no entry; the first enter outer track
\* names its transition track and the left enter curve, which names it back.
C24_Witness ==
    /\ SlipBuilt
    /\ HintsAreForeign
    /\ call.structure.left_slip /\ call.structure.right_slip
    /\ call.subtracks[1].prev = Some(201)
    /\ call.subtracks[1].next = <<301>>
    /\ FirstPath(1).ids.next = <<FirstPath(2).ids.own, built.val[1].ids.own>>
    /\ built.val[1].ids.prev = Some(FirstPath(1).ids.own)
    /\ FirstPath(4).ids.next = <<FirstPath(3).ids.own>>

\* ------------------------------------------------------------------------
\* Roles of the subtrack entries of a slip switch
\* ------------------------------------------------------------------------
\* The own id of the entry at position p of the row's subtrack list, counted
\* from 0.
EntryOwn(p) == call.subtracks[p + 1].own

\* The number of diagonals the slip switch has.
DiagonalCount ==
    (IF call.structure.left_slip THEN 1 ELSE 0) + (IF call.structure.right_slip THEN 1 ELSE 0)

\* The tracks of the left diagonal start the vector, those of the right
\* diagonal follow after RightBase tracks; an enabled diagonal is enter curve,
\* centre curve, exit curve, a disabled one is the centre alone.
LeftCentre == built.val[IF call.structure.left_slip THEN 2 ELSE 1]

RightCentre == built.val[RightBase + (IF call.structure.right_slip THEN 2 ELSE 1)]

\* C25: build_slip_switch gives the entries their roles by position: 0, 1
\* the enter outer tracks, 2, 3 the exit outer tracks, 4, 5 the enter
\* transition tracks; then, after the entries of the diagonals' curves are
\* left out, two crossing centres, two diagonal centres and two exit
\* transition tracks, at 6..11 with no diagonal, at 7..12 with one and at
\* 8..13 with both; one diagonal alone has its enter curve at 6 and its exit
\* curve at 13, with both the left has 6 and 14 and the right 7 and 15.
C25_SlipRolesByPosition ==
    SlipBuilt =>
        /\ FirstPath(1).ids.own = EntryOwn(0) /\ SecondPath(1).ids.own = EntryOwn(1)
        /\ FirstPath(5).ids.own = EntryOwn(2) /\ SecondPath(5).ids.own = EntryOwn(3)
        /\ FirstPath(2).ids.own = EntryOwn(4) /\ SecondPath(2).ids.own = EntryOwn(5)
        /\ FirstPath(3).ids.own = EntryOwn(6 + DiagonalCount)
        /\ SecondPath(3).ids.own = EntryOwn(7 + DiagonalCount)
        /\ LeftCentre.ids.own = EntryOwn(8 + DiagonalCount)
        /\ RightCentre.ids.own = EntryOwn(9 + DiagonalCount)
        /\ FirstPath(4).ids.own = EntryOwn(10 + DiagonalCount)
        /\ SecondPath(4).ids.own = EntryOwn(11 + DiagonalCount)
        /\ call.structure.left_slip =>
              /\ built.val[1].ids.own = EntryOwn(6)
              /\ built.val[3].ids.own = EntryOwn(IF call.structure.right_slip THEN 14 ELSE 13)
              /\ built.val[1].shape.kind = "Arc" /\ built.val[3].shape.kind = "Arc"
        /\ call.structure.right_slip =>
              /\ built.val[RightBase + 1].ids.own = EntryOwn(IF call.structure.left_slip THEN 7 ELSE 6)
              /\ built.val[RightBase + 3].ids.own = EntryOwn(IF call.structure.left_slip THEN 15 ELSE 13)
              /\ built.val[RightBase + 1].shape.kind = "Arc" /\ built.val[RightBase + 3].shape.kind = "Arc"

\* A slip switch with both diagonals was built: the right diagonal's curves
\* carry the ids of entries 7 and 15, the crossing centres those of 8 and 9.
C25_Witness ==
    /\ SlipBuilt
    /\ call.structure.left_slip /\ call.structure.right_slip
    /\ built.val[4].ids.own = 108
    /\ built.val[6].ids.own = 116
    /\ FirstPath(3).ids.own = 109
    /\ SecondPath(3).ids.own = 110

\* ------------------------------------------------------------------------
\* Roles of the subtrack entries of a fork
\* ------------------------------------------------------------------------
\* The track at place i of the vector has the own id of entry p, the
\* predecessor prev and the successors next.
BuiltIs(i, p, prev, next) ==
    /\ built.val[i].ids.own = EntryOwn(p)
    /\ built.val[i].ids.prev = prev
    /\ built.val[i].ids.next = next

\* The curve at place i of the vector is the one of the given radius.
CurveOfRadius(i, radius) ==
    Ok(built.val[i].shape) = TrackShape_arc_or_straight(call.start, radius, call.structure.curve_length)

\* C26: build_fork_switch gives the entries their roles by position: entry
\* 0 is the anchor with the two curves as successors, entry 1 the curve of
\* radius_1, entry 2 the curve of radius_2; with 7 entries the branches are
\* 1 -> 3 -> 5 and 2 -> 4 -> 6; with 5 entries the first curve's successor is
\* entry 4, the second curve's is entry 3, and the tracks are returned in the
\* order of entries 0, 1, 2, 4, 3.
C26_ForkRolesByPosition ==
    ForkBuilt =>
        /\ built.val[1].ids.own = EntryOwn(0)
        /\ built.val[1].ids.next = <<EntryOwn(1), EntryOwn(2)>>
        /\ built.val[1].shape = TrackShape_point(call.start)
        /\ CurveOfRadius(2, call.structure.radius_1)
        /\ CurveOfRadius(3, call.structure.radius_2)
        /\ Len(call.subtracks) = 7 =>
              /\ BuiltIs(2, 1, Some(EntryOwn(0)), <<EntryOwn(3)>>)
              /\ BuiltIs(4, 3, Some(EntryOwn(1)), <<EntryOwn(5)>>)
              /\ built.val[6].ids.own = EntryOwn(5) /\ built.val[6].ids.prev = Some(EntryOwn(3))
              /\ BuiltIs(3, 2, Some(EntryOwn(0)), <<EntryOwn(4)>>)
              /\ BuiltIs(5, 4, Some(EntryOwn(2)), <<EntryOwn(6)>>)
              /\ built.val[7].ids.own = EntryOwn(6) /\ built.val[7].ids.prev = Some(EntryOwn(4))
        /\ Len(call.subtracks) = 5 =>
              /\ BuiltIs(2, 1, Some(EntryOwn(0)), <<EntryOwn(4)>>)
              /\ BuiltIs(3, 2, Some(EntryOwn(0)), <<EntryOwn(3)>>)
              /\ built.val[4].ids.own = EntryOwn(4) /\ built.val[4].ids.prev = Some(EntryOwn(1))
              /\ built.val[5].ids.own = EntryOwn(3) /\ built.val[5].ids.prev = Some(EntryOwn(2))
              /\ built.val[4].shape = TrackShape_point(TrackShape_end(built.val[2].shape))
              /\ built.val[5].shape = TrackShape_point(TrackShape_end(built.val[3].shape))

\* A fork without extension was built from 5 entries: the first curve leads
\* to the track of entry 4, returned fourth, and the two curves differ.
C26_Witness ==
    /\ ForkBuilt
    /\ Len(call.subtracks) = 5
    /\ built.val[2].ids.next = <<105>>
    /\ built.val[4].ids.own = 105
    /\ built.val[5].ids.own = 104
    /\ built.val[2].shape # built.val[3].shape

\* ------------------------------------------------------------------------
\* Section tags
\* ------------------------------------------------------------------------
\* The state after a section tag of the given kind is read in state st: a
\* section opens in Default alone, and ends at the end tag of its own kind
\* alone.
AfterTag(st, row_kind) ==
    CASE st = "Default" /\ row_kind = <<"Route">> -> "Route"
      [] st = "Default" /\ row_kind = <<"TerrainGroup">> -> "TerrainGroup"
      [] st = "Route" /\ row_kind = <<"EndRoute">> -> "Default"
      [] st = "TerrainGroup" /\ row_kind = <<"EndTerrainGroup">> -> "Default"
      [] OTHER -> st

\* C27: sections do not nest and an end tag ends a section of its own kind
\* alone: inside a Route section a TerrainGroup, EndTerrainGroup or Route row
\* changes nothing and the EndRoute row returns to Default, and likewise
\* inside a TerrainGroup section; an end tag read in Default leaves the
\* state Default, where it is printed as an unknown kind; none of these rows
\* adds a track, and an empty line changes neither the state nor the tracks
\* in any state.
C27_SectionsDoNotNest ==
    [][/\ \A line \in SectionLines :
             ReadLine(line) =>
                 /\ state' = AfterTag(state, Cell(line, 0))
                 /\ tracks' = tracks
                 /\ pc' = "reading"
                 /\ log' = IF state = "Default" /\ Cell(line, 0) \in {<<"EndRoute">>, <<"EndTerrainGroup">>}
                           THEN <<"Unknown kind", Cell(line, 0)>> ELSE << >>
       /\ ReadLine(<< >>) => (state' = state /\ tracks' = tracks /\ pc' = "reading")]_vars

\* After a track was read, an EndRoute row was read in Default state.
C27_Witness ==
    /\ pc = "reading"
    /\ state = "Default"
    /\ Len(tracks) = 1
    /\ lines_read = 2
    /\ log = <<"Unknown kind", <<"EndRoute">>>>

=============================================================================
